---- MODULE Spec2Model ----
(***************************************************************************)
(* A model of wasm-bindgen's cli-support descriptor codec (descriptor.rs)  *)
(* and of the binding-synthesis pass (webidl.rs).                          *)
(*                                                                         *)
(* Groups of state live side by side; each specification drives one       *)
(* group and leaves the others at their initial value:                     *)
(*   SpecDecode - an opcode stream is emitted word by word and decoded     *)
(*   SpecAbi    - a descriptor is drawn and the ABI queries are applied    *)
(*   SpecExtract - custom sections are written, then extract_programs runs *)
(*   Spec       - process runs the Context over the exports of the units   *)
(*   SpecImports - process runs over the function imports of one unit      *)
(*   SpecNames  - process runs over imports whose names are resolved       *)
(*   SpecSnippets - process runs over units with local modules, snippets   *)
(*   SpecVerify - the verifier runs on a record set                        *)
(*   SpecProcess - process runs on inputs that fail at every step          *)
(*   SpecItems  - process runs over units with enums, structs, typescript  *)
(***************************************************************************)
EXTENDS Integers, Sequences, FiniteSets, TLC

VARIABLES
    data,       \* descriptor.rs: the u32 opcode stream handed to Descriptor::decode
    decoded,    \* the outcome of Descriptor::decode(data), or NotRun
    subject,    \* a Descriptor value the ABI queries are applied to
    answer,     \* the last ABI query applied to subject and what it returned
    customs,    \* webidl.rs: module.customs, the module's raw custom sections
    program_storage,  \* extract_programs: the payloads removed from the module
    extracted,  \* the outcome of extract_programs, or NotExtracted
    cx,         \* the Context of the pass, its module included
    pc,         \* where process stands
    programs_begun, \* the number of program units handed to Context::program
    handled,    \* the exports handed to Context::export, with what became of them
    units,      \* the program units handed to Context::program, each with its type imports
                \* and the enums, structs and typescript sections handled
    cursor,     \* the number of type imports of the unit being processed that were handled
    imports_handled, \* the imports handed to Context::import, with what became of them
    result      \* the Result of process, or "running"

codecVars == <<data, decoded>>
abiVars == <<subject, answer>>
extractVars == <<customs, program_storage, extracted>>
passVars == <<cx, pc, programs_begun, handled, units, cursor, imports_handled, result>>
vars == <<data, decoded, subject, answer, customs, program_storage, extracted,
          cx, pc, programs_begun, handled, units, cursor, imports_handled, result>>

-----------------------------------------------------------------------------
(* Bounds of the model.                                                    *)

\* the number of words the emitter appends to a stream preamble
MaxLen == 4
\* the nesting depth of the descriptors the ABI queries are applied to
MaxDepth == 3
\* the number of custom sections of the module
MaxSections == 2
\* the number of chunks written to the module's custom sections, in total
MaxChunks == 3
\* the number of program units the pass is run on
MaxPrograms == 2
\* the number of exports the program units declare between them
MaxExports == 2
\* the number of imports other than type imports the units declare between them
MaxImports == 2
\* the number of enums, structs and typescript sections the units declare
\* between them
MaxItems == 2

-----------------------------------------------------------------------------
(* descriptor.rs:13-39, the opcode numbering produced by the tys! macro.   *)

I8 == 0
U8 == 1
I16 == 2
U16 == 3
I32 == 4
U32 == 5
I64 == 6
U64 == 7
F32 == 8
F64 == 9
BOOLEAN_OP == 10
FUNCTION == 11
CLOSURE == 12
STRING_OP == 13
REF == 14
REFMUT == 15
SLICE == 16
VECTOR == 17
ANYREF == 18
ENUM == 19
RUST_STRUCT == 20
CHAR == 21
OPTIONAL == 22
UNIT == 23
CLAMPED == 24

-----------------------------------------------------------------------------
(* descriptor.rs:41-83, the Descriptor enum with Function and Closure.     *)
(* Every value is a record of the same three fields so that any two        *)
(* descriptors can be compared: tag is the variant, kids the boxed         *)
(* descriptors it owns and nums its integer payload.                       *)

\* a variant without payload: I8, U8, ClampedU8, ..., String, Anyref, Char, Unit
Prim(tag) == [tag |-> tag, kids |-> <<>>, nums |-> <<>>]

\* Ref(Box<Descriptor>), RefMut, Slice, Vector, Option
Boxed(tag, d) == [tag |-> tag, kids |-> <<d>>, nums |-> <<>>]

\* Enum { hole: u32 }
EnumD(hole) == [tag |-> "Enum", kids |-> <<>>, nums |-> <<hole>>]

\* RustStruct(String): the name as its sequence of code points
RustStructD(name) == [tag |-> "RustStruct", kids |-> <<>>, nums |-> name]

\* Function { arguments, shim_idx, ret }: kids is arguments followed by ret
FunctionD(shim_idx, arguments, ret) ==
    [tag |-> "Function", kids |-> Append(arguments, ret), nums |-> <<shim_idx>>]

\* Closure { shim_idx, dtor_idx, function, mutable }
ClosureD(shim_idx, dtor_idx, mutable, function) ==
    [tag |-> "Closure", kids |-> <<function>>,
     nums |-> <<shim_idx, dtor_idx, IF mutable THEN 1 ELSE 0>>]

arguments_of(f) == SubSeq(f.kids, 1, Len(f.kids) - 1)
ret_of(f) == f.kids[Len(f.kids)]
inner(d) == d.kids[1]

-----------------------------------------------------------------------------
(* The outcome of a decoding step: a value and the rest of the cursor, or  *)
(* a panic (index out of bounds, unknown opcode, failed assertion).        *)

Ok(d, rest) == [ok |-> TRUE, d |-> d, rest |-> rest, why |-> "none"]
Panic(why) == [ok |-> FALSE, d |-> Prim("Unit"), rest |-> <<>>, why |-> why]
NotRun == [ok |-> FALSE, d |-> Prim("Unit"), rest |-> <<>>, why |-> "not run"]

\* descriptor.rs:366-370: a[0] panics on an empty slice
get(a) ==
    IF a = <<>> THEN [ok |-> FALSE, val |-> 0, rest |-> <<>>]
    ELSE [ok |-> TRUE, val |-> Head(a), rest |-> Tail(a)]

\* char::from_u32: Some for every scalar value, None for surrogates and beyond
char_from_u32(v) == (0 <= v /\ v < 55296) \/ (57344 <= v /\ v <= 1114111)

RECURSIVE _decode(_, _)
RECURSIVE decode_arguments(_, _, _)
RECURSIVE decode_name(_, _, _)

\* a boxing arm that drops the clamped flag
decode_boxed_unclamped(tag, rest, clamped) ==
    LET r == _decode(rest, FALSE)
    IN  IF r.ok THEN Ok(Boxed(tag, r.d), r.rest) ELSE r

\* descriptor.rs:129-133: REF, REFMUT, SLICE, VECTOR and OPTIONAL box the
\* descriptor that follows, decoded with the same clamped flag
decode_boxed(tag, rest, clamped) ==
    LET r == _decode(rest, clamped)
    IN  IF r.ok THEN Ok(Boxed(tag, r.d), r.rest) ELSE r

\* descriptor.rs:390-392: (0..n).map(|_| Descriptor::_decode(data, false))
decode_arguments(n, rest, acc) ==
    IF n = 0 THEN [ok |-> TRUE, ds |-> acc, rest |-> rest, why |-> "none"]
    ELSE LET r == _decode(rest, FALSE)
         IN  IF r.ok THEN decode_arguments(n - 1, r.rest, Append(acc, r.d))
             ELSE [ok |-> FALSE, ds |-> <<>>, rest |-> <<>>, why |-> r.why]

\* Function::decode that takes a missing return descriptor for Unit
Function_decode_default_ret(rest) ==
    LET shim_idx == get(rest)
    IN  IF ~shim_idx.ok THEN Panic("index out of bounds") ELSE
        LET n == get(shim_idx.rest)
        IN  IF ~n.ok THEN Panic("index out of bounds") ELSE
            LET args == decode_arguments(n.val, n.rest, <<>>)
            IN  IF ~args.ok THEN Panic(args.why)
                ELSE IF args.rest = <<>>
                THEN Ok(FunctionD(shim_idx.val, args.ds, Prim("Unit")), <<>>)
                ELSE LET r == _decode(args.rest, FALSE)
                     IN  IF ~r.ok THEN r
                         ELSE Ok(FunctionD(shim_idx.val, args.ds, r.d), r.rest)

\* descriptor.rs:387-399: Function::decode
Function_decode(rest) ==
    LET shim_idx == get(rest)
    IN  IF ~shim_idx.ok THEN Panic("index out of bounds") ELSE
        LET n == get(shim_idx.rest)
        IN  IF ~n.ok THEN Panic("index out of bounds") ELSE
            LET args == decode_arguments(n.val, n.rest, <<>>)
            IN  IF ~args.ok THEN Panic(args.why) ELSE
                LET r == _decode(args.rest, FALSE)
                IN  IF ~r.ok THEN r
                    ELSE Ok(FunctionD(shim_idx.val, args.ds, r.d), r.rest)

\* descriptor.rs:372-385: Closure::decode
Closure_decode(rest) ==
    LET shim_idx == get(rest)
    IN  IF ~shim_idx.ok THEN Panic("index out of bounds") ELSE
        LET dtor_idx == get(shim_idx.rest)
        IN  IF ~dtor_idx.ok THEN Panic("index out of bounds") ELSE
            LET mutable == get(dtor_idx.rest)
            IN  IF ~mutable.ok THEN Panic("index out of bounds") ELSE
                LET tag == get(mutable.rest)
                IN  IF ~tag.ok THEN Panic("index out of bounds")
                    ELSE IF tag.val # FUNCTION THEN Panic("assert_eq FUNCTION")
                    ELSE LET f == Function_decode(tag.rest)
                         IN  IF ~f.ok THEN f
                             ELSE Ok(ClosureD(shim_idx.val, dtor_idx.val,
                                              mutable.val = REFMUT, f.d), f.rest)

\* descriptor.rs:138-140: (0..n).map(|_| char::from_u32(get(data)).unwrap())
decode_name(n, rest, acc) ==
    IF n = 0 THEN [ok |-> TRUE, name |-> acc, rest |-> rest, why |-> "none"]
    ELSE LET c == get(rest)
         IN  IF ~c.ok
             THEN [ok |-> FALSE, name |-> <<>>, rest |-> <<>>,
                   why |-> "index out of bounds"]
             ELSE IF ~char_from_u32(c.val)
             THEN [ok |-> FALSE, name |-> <<>>, rest |-> <<>>,
                   why |-> "unwrap on None"]
             ELSE decode_name(n - 1, c.rest, Append(acc, c.val))

\* descriptor.rs:114-147: the match on the leading opcode
decode_opcode(op, rest, clamped) ==
    CASE op = I8 -> Ok(Prim("I8"), rest)
      [] op = I16 -> Ok(Prim("I16"), rest)
      [] op = I32 -> Ok(Prim("I32"), rest)
      [] op = I64 -> Ok(Prim("I64"), rest)
      [] op = U8 /\ clamped -> Ok(Prim("ClampedU8"), rest)
      [] op = U8 /\ ~clamped -> Ok(Prim("U8"), rest)
      [] op = U16 -> Ok(Prim("U16"), rest)
      [] op = U32 -> Ok(Prim("U32"), rest)
      [] op = U64 -> Ok(Prim("U64"), rest)
      [] op = F32 -> Ok(Prim("F32"), rest)
      [] op = F64 -> Ok(Prim("F64"), rest)
      [] op = BOOLEAN_OP -> Ok(Prim("Boolean"), rest)
      [] op = FUNCTION -> Function_decode(rest)
      [] op = CLOSURE -> Closure_decode(rest)
      [] op = REF -> decode_boxed("Ref", rest, clamped)
      [] op = REFMUT -> decode_boxed("RefMut", rest, clamped)
      [] op = SLICE -> decode_boxed("Slice", rest, clamped)
      [] op = VECTOR -> decode_boxed("Vector", rest, clamped)
      [] op = OPTIONAL -> decode_boxed("Option", rest, clamped)
      [] op = STRING_OP -> Ok(Prim("String"), rest)
      [] op = ANYREF -> Ok(Prim("Anyref"), rest)
      [] op = ENUM ->
            LET hole == get(rest)
            IN  IF hole.ok THEN Ok(EnumD(hole.val), hole.rest)
                ELSE Panic("index out of bounds")
      [] op = RUST_STRUCT ->
            LET n == get(rest)
            IN  IF ~n.ok THEN Panic("index out of bounds") ELSE
                LET name == decode_name(n.val, n.rest, <<>>)
                IN  IF name.ok THEN Ok(RustStructD(name.name), name.rest)
                    ELSE Panic(name.why)
      [] op = CHAR -> Ok(Prim("Char"), rest)
      [] op = UNIT -> Ok(Prim("Unit"), rest)
      [] op = CLAMPED -> _decode(rest, TRUE)
      [] OTHER -> Panic("unknown descriptor")

\* descriptor.rs:113-148: Descriptor::_decode
_decode(a, clamped) ==
    LET op == get(a)
    IN  IF op.ok THEN decode_opcode(op.val, op.rest, clamped)
        ELSE Panic("index out of bounds")

\* decode without the assertion that the stream was consumed
decode_unasserted(a) ==
    LET r == _decode(a, FALSE)
    IN  IF r.ok THEN Ok(r.d, <<>>) ELSE r

\* descriptor.rs:107-111: Descriptor::decode
decode(a) ==
    LET r == _decode(a, FALSE)
    IN  IF ~r.ok THEN r
        ELSE IF r.rest # <<>> THEN Panic("remaining data")
        ELSE r

-----------------------------------------------------------------------------
(* descriptor.rs:188-332, the ABI queries. An Option<T> result is the      *)
(* value, or "None".                                                       *)

\* descriptor.rs:188-194: Some for I64 and U64
get_64(d) ==
    CASE d.tag = "I64" -> "Some(true)"
      [] d.tag = "U64" -> "Some(false)"
      [] OTHER -> "None"

\* descriptor.rs:233-247: the element type's VectorKind
vector_kind_of_element(e) ==
    IF e.tag \in {"I8", "I16", "I32", "I64", "U8", "ClampedU8", "U16", "U32",
                  "U64", "F32", "F64", "Anyref"}
    THEN e.tag ELSE "None"

\* vector_kind looking through any number of references
RECURSIVE vector_kind_deref(_)
vector_kind_deref(d) ==
    CASE d.tag = "String" -> "String"
      [] d.tag \in {"Vector", "Slice"} -> vector_kind_of_element(inner(d))
      [] d.tag \in {"Ref", "RefMut"} -> vector_kind_deref(inner(d))
      [] OTHER -> "None"

\* descriptor.rs:217-248: Descriptor::vector_kind
vector_kind(d) ==
    CASE d.tag = "String" -> "String"
      [] d.tag = "Vector" -> vector_kind_of_element(inner(d))
      [] d.tag = "Slice" -> vector_kind_of_element(inner(d))
      [] d.tag = "Ref" ->
            (CASE inner(d).tag = "Slice" -> vector_kind_of_element(inner(inner(d)))
               [] inner(d).tag = "String" -> "String"
               [] OTHER -> "None")
      [] d.tag = "RefMut" ->
            (CASE inner(d).tag = "Slice" -> vector_kind_of_element(inner(inner(d)))
               [] OTHER -> "None")
      [] OTHER -> "None"

\* descriptor.rs:262-272: Some((function, mutable)) for Ref/RefMut of a Function
stack_closure(d) ==
    IF d.tag \in {"Ref", "RefMut"} /\ inner(d).tag = "Function"
    THEN [some |-> TRUE, function |-> inner(d), mutable |-> d.tag = "RefMut"]
    ELSE [some |-> FALSE, function |-> Prim("Unit"), mutable |-> FALSE]

\* abi_returned_through_pointer with U16 missing from the list of narrow types
abi_returned_through_pointer_no_u16(d) ==
    \/ vector_kind(d) # "None"
    \/ get_64(d) # "None"
    \/ /\ d.tag = "Option"
       /\ inner(d).tag \notin {"Anyref", "RustStruct", "Enum", "Char", "Boolean",
                               "I8", "U8", "I16"}

\* descriptor.rs:288-310: Descriptor::abi_returned_through_pointer
abi_returned_through_pointer(d) ==
    IF vector_kind(d) # "None" THEN TRUE
    ELSE IF get_64(d) # "None" THEN TRUE
    ELSE IF d.tag = "Option"
         THEN inner(d).tag \notin {"Anyref", "RustStruct", "Enum", "Char",
                                   "Boolean", "I8", "U8", "I16", "U16"}
         ELSE FALSE

\* abi_arg_count with the stack-closure test after the pointer test dropped
abi_arg_count_no_closure(d) ==
    IF d.tag = "Option" /\ get_64(inner(d)) # "None" THEN 4
    ELSE IF d.tag = "Option" /\ inner(d).tag = "Ref"
            /\ inner(inner(d)).tag = "Anyref" THEN 1
    ELSE IF abi_returned_through_pointer(d) THEN 2
    ELSE 1

\* descriptor.rs:312-332: Descriptor::abi_arg_count
abi_arg_count(d) ==
    IF d.tag = "Option" /\ get_64(inner(d)) # "None" THEN 4
    ELSE IF d.tag = "Option" /\ inner(d).tag = "Ref"
            /\ inner(inner(d)).tag = "Anyref" THEN 1
    ELSE IF stack_closure(d).some THEN 2
    ELSE IF abi_returned_through_pointer(d) THEN 2
    ELSE 1

-----------------------------------------------------------------------------
(* webidl.rs:1171-1290, the program extractor. Payloads are sequences of   *)
(* bytes; text is its sequence of ASCII codes.                             *)

\* "__wasm_bindgen_unstable", the name of the sections extract_programs removes
SentinelName == "__wasm_bindgen_unstable"

\* the text "schema_version":" with its quotes (webidl.rs:1268)
SchemaNeedle ==
    <<34, 115, 99, 104, 101, 109, 97, 95, 118, 101, 114, 115, 105, 111, 110, 34, 58, 34>>
\* the text "version":" with its quotes (webidl.rs:1280)
VersionNeedle == <<34, 118, 101, 114, 115, 105, 111, 110, 34, 58, 34>>

\* wasm_bindgen_shared::SCHEMA_VERSION, here the text 1
SCHEMA_VERSION == <<49>>

\* str::find: the 0-based index of the first occurrence of needle, or -1
find(hay, needle) ==
    LET at == {i \in 0..(Len(hay) - Len(needle)) :
                  SubSeq(hay, i + 1, i + Len(needle)) = needle}
    IN  IF at = {} THEN -1 ELSE CHOOSE i \in at : \A j \in at : i <= j

\* &s[i..]
from(s, i) == SubSeq(s, i + 1, Len(s))

\* str::from_utf8 on the payloads of this model, whose bytes are ASCII or 255:
\* a byte above 127 that starts no valid sequence is rejected
from_utf8_ok(bytes) == \A i \in 1..Len(bytes) : bytes[i] < 128

\* webidl.rs:1254-1290: Err (bad), Ok(None) or Ok(Some(their_version))
verify_schema_matches(header) ==
    LET bad == [err |-> TRUE, their_version |-> <<>>, some |-> FALSE]
        quote == <<34>>
    IN  IF ~from_utf8_ok(header) THEN bad
        ELSE IF header = <<>> \/ header[1] # 123 \/ header[Len(header)] # 125 THEN bad
        ELSE LET i == find(header, SchemaNeedle)
             IN  IF i = -1 THEN bad ELSE
                 LET rest == from(header, i + Len(SchemaNeedle))
                     j == find(rest, quote)
                 IN  IF j = -1 THEN bad
                     ELSE IF SubSeq(rest, 1, j) = SCHEMA_VERSION
                     THEN [err |-> FALSE, their_version |-> <<>>, some |-> FALSE]
                     ELSE LET k == find(header, VersionNeedle)
                          IN  IF k = -1 THEN bad ELSE
                              LET rest2 == from(header, k + Len(VersionNeedle))
                                  l == find(rest2, quote)
                              IN  IF l = -1 THEN bad
                                  ELSE [err |-> FALSE, some |-> TRUE,
                                        their_version |-> SubSeq(rest2, 1, l)]

\* webidl.rs:1241-1252: None on an empty payload, a panic when the four length
\* bytes or the len bytes after them are not there, else Some(a) and the rest
get_remaining(payload) ==
    IF Len(payload) = 0
    THEN [panic |-> FALSE, some |-> FALSE, a |-> <<>>, rest |-> <<>>]
    ELSE IF Len(payload) < 4
    THEN [panic |-> TRUE, some |-> FALSE, a |-> <<>>, rest |-> <<>>]
    ELSE LET len == payload[1] + payload[2] * 256 + payload[3] * 65536
                    + payload[4] * 16777216
         IN  IF len > Len(payload) - 4
             THEN [panic |-> TRUE, some |-> FALSE, a |-> <<>>, rest |-> <<>>]
             ELSE [panic |-> FALSE, some |-> TRUE,
                   a |-> SubSeq(payload, 5, 4 + len),
                   rest |-> SubSeq(payload, 5 + len, Len(payload))]

\* decode::Program::decode_all: the program unit the body bytes encode
decode_all(body) == [program |-> body]

\* the outcome of extract_programs: Ok(ret), an Err or a panic
Extracted(status, ret, their_version) ==
    [status |-> status, programs |-> ret, their_version |-> their_version]
NotExtracted == Extracted("not run", <<>>, <<>>)

RECURSIVE extract_payload(_, _)
\* webidl.rs:1189-1236: the while loop over one section's payload; ret is the
\* list built so far, and an "ok" status means the payload was consumed
extract_payload(payload, ret) ==
    LET header == get_remaining(payload)
    IN  IF header.panic THEN Extracted("panic", <<>>, <<>>)
        ELSE IF ~header.some THEN Extracted("ok", ret, <<>>)
        ELSE LET v == verify_schema_matches(header.a)
             IN  IF v.err THEN Extracted("malformed", <<>>, <<>>)
                 ELSE IF v.some THEN Extracted("version mismatch", <<>>, v.their_version)
                 ELSE LET next == get_remaining(header.rest)
                      IN  IF next.panic \/ ~next.some
                          THEN Extracted("panic", <<>>, <<>>)
                          ELSE extract_payload(next.rest,
                                               Append(ret, decode_all(next.a)))

RECURSIVE extract_storage(_, _, _)
\* extract_storage that gives up at the first payload it cannot read and
\* returns what it has
extract_storage_best_effort(storage, i, ret) ==
    IF i > Len(storage) THEN Extracted("ok", ret, <<>>)
    ELSE LET r == extract_payload(storage[i].data, ret)
         IN  IF r.status # "ok" THEN Extracted("ok", ret, <<>>)
             ELSE extract_storage(storage, i + 1, r.programs)

\* extract_storage that prepends each section's programs to the list
extract_storage_reversed(storage, i, ret) ==
    IF i > Len(storage) THEN Extracted("ok", ret, <<>>)
    ELSE LET r == extract_payload(storage[i].data, <<>>)
         IN  IF r.status # "ok" THEN r
             ELSE extract_storage(storage, i + 1, r.programs \o ret)

\* webidl.rs:1186-1238: the for loop over program_storage
extract_storage(storage, i, ret) ==
    IF i > Len(storage) THEN Extracted("ok", ret, <<>>)
    ELSE LET r == extract_payload(storage[i].data, ret)
         IN  IF r.status # "ok" THEN r
             ELSE extract_storage(storage, i + 1, r.programs)

\* the sections of the module in the order seq lists their indices
Pick(sections, seq) == [i \in 1..Len(seq) |-> sections[seq[i]]]

\* the sections remove_raw leaves in the module, in the order they had
RECURSIVE Remaining(_, _)
Remaining(sections, i) ==
    IF i > Len(sections) THEN <<>>
    ELSE IF sections[i].name # SentinelName
    THEN <<sections[i]>> \o Remaining(sections, i + 1)
    ELSE Remaining(sections, i + 1)

\* every order in which the indices of set can be listed
Orders(set) ==
    {seq \in [1..Cardinality(set) -> set] :
        \A a, b \in 1..Cardinality(set) : a # b => seq[a] # seq[b]}

-----------------------------------------------------------------------------
(* The chunks a compiled crate writes into its custom section. Each chunk  *)
(* is tagged with what its writer meant so that claims can speak of it.    *)

\* {"schema_version":"1","version":"A"}
HeaderMatch ==
    <<123>> \o SchemaNeedle \o <<49, 34, 44>> \o VersionNeedle \o <<65, 34, 125>>
\* {"schema_version":"2","version":"B"}
HeaderSkew ==
    <<123>> \o SchemaNeedle \o <<50, 34, 44>> \o VersionNeedle \o <<66, 34, 125>>
\* {"schema_version":"2"}
HeaderSkewAnonymous == <<123>> \o SchemaNeedle \o <<50, 34, 125>>
\* "schema_version":"1" without its braces
HeaderGarbled == SchemaNeedle \o <<49, 34>>
\* a header that is not UTF-8
HeaderBinary == <<123, 255, 125>>

\* a length-prefixed slice: four little-endian length bytes, then the bytes
Frame(bytes) ==
    <<Len(bytes) % 256, (Len(bytes) \div 256) % 256,
      (Len(bytes) \div 65536) % 256, (Len(bytes) \div 16777216) % 256>> \o bytes

ChunkKinds ==
    {"match", "skew", "skew_anonymous", "garbled", "binary", "bodiless", "overrun"}
\* the kinds that end before their body does
CutShortKinds == {"bodiless", "overrun"}
\* the kinds whose header carries a schema version other than SCHEMA_VERSION
SkewKinds == {"skew", "skew_anonymous"}

\* the bytes of a chunk of the given kind with the given program body
ChunkBytes(kind, body) ==
    CASE kind = "match" -> Frame(HeaderMatch) \o Frame(body)
      [] kind = "skew" -> Frame(HeaderSkew) \o Frame(body)
      [] kind = "skew_anonymous" -> Frame(HeaderSkewAnonymous) \o Frame(body)
      [] kind = "garbled" -> Frame(HeaderGarbled) \o Frame(body)
      [] kind = "binary" -> Frame(HeaderBinary) \o Frame(body)
      [] kind = "bodiless" -> Frame(HeaderMatch)
      [] kind = "overrun" -> <<9, 0, 0, 0>> \o body

\* the encoded program units a matching chunk may carry
Bodies == {<<7>>, <<8>>}

TotalChunks(sections) ==
    LET RECURSIVE sum(_)
        sum(i) == IF i = 0 THEN 0 ELSE Len(sections[i].chunks) + sum(i - 1)
    IN  sum(Len(sections))

-----------------------------------------------------------------------------
(* The opcode streams and descriptors the model feeds to the codec.        *)

\* the words the emitter writes: every composite opcode, two primitives
\* (0 and 1 double as counts, indices and name characters), the clamped
\* modifier, and 55296, which is no opcode and (a surrogate) no character
Words == {I8, U8, FUNCTION, CLOSURE, REF, REFMUT, SLICE, VECTOR, ENUM,
          RUST_STRUCT, OPTIONAL, CLAMPED, 55296}

\* streams the emitter may have written before the model follows it
Preambles == {<<>>, <<CLAMPED>>, <<FUNCTION, 0>>, <<CLOSURE, 0, 0, REFMUT>>}

\* the length of the longest preamble that starts the stream s
Preamble(s) ==
    LET fits == {p \in Preambles : Len(p) <= Len(s) /\ SubSeq(s, 1, Len(p)) = p}
    IN  CHOOSE n \in {Len(p) : p \in fits} : \A q \in fits : Len(q) <= n

PrimTags == {"I8", "U8", "ClampedU8", "I16", "U16", "I32", "U32", "I64", "U64",
             "F32", "F64", "Boolean", "String", "Anyref", "Char", "Unit"}
BoxTags == {"Ref", "RefMut", "Slice", "Vector", "Option"}

Functions ==
    {FunctionD(0, args, r) : args \in {<<>>, <<Prim("I32")>>},
                             r \in {Prim("Unit"), Prim("I64")}}

\* the descriptors without a boxed descriptor
Leaves ==
    {Prim(t) : t \in PrimTags} \cup {EnumD(0), RustStructD(<<65>>)}
    \cup Functions
    \cup {ClosureD(0, 0, m, FunctionD(0, <<>>, Prim("Unit"))) : m \in BOOLEAN}

RECURSIVE DescriptorsOfDepth(_)
DescriptorsOfDepth(n) ==
    IF n <= 1 THEN Leaves
    ELSE Leaves \cup {Boxed(t, d) : t \in BoxTags, d \in DescriptorsOfDepth(n - 1)}

-----------------------------------------------------------------------------
(* The pass over the program units (webidl.rs Context).                    *)

\* Option<T>: None, or Some(x) holding x
None == <<>>
Some(x) == <<x>>

\* HashMap: insert replaces the value under a key, remove drops the key
EmptyMap == <<>>
Insert(map, k, v) ==
    [key \in DOMAIN map \cup {k} |-> IF key = k THEN v ELSE map[key]]
\* remove that leaves the entry in the map
Remove_nothing(map, k) == map
Remove(map, k) == [key \in DOMAIN map \ {k} |-> map[key]]

PLACEHOLDER_MODULE == "__wbindgen_placeholder__"

\* a walrus function: its type and its instructions; the body of a function
\* the compiler produced is one opaque instruction
Compiled(ty, n) == [ty |-> ty, body |-> <<[op |-> "compiled", f |-> n]>>]
Call(f) == [op |-> "call", f |-> f]

\* the messages of the errors and panics of the pass
TwoStartFunctions == "cannot specify two start functions"
NotAFunction == "panic: not a function"
NoSuchExport == "panic: no entry found for key"

\* Result<(), Error> of a handler, with the Context as the handler left it
Proceed(self) == [cx |-> self, err |-> ""]
Bail(self, msg) == [cx |-> self, err |-> msg]

\* webidl.rs:423-433: the Context process builds around the module
NewContext(module) ==
    [ start_found |-> FALSE,
      module |-> module,
      bindings |-> [exports |-> EmptyMap, imports |-> EmptyMap],
      aux |-> [export_map |-> EmptyMap, import_map |-> EmptyMap,
               imports_with_variadic |-> {}, imports_with_catch |-> {},
               local_modules |-> EmptyMap, snippets |-> EmptyMap,
               enums |-> <<>>, structs |-> <<>>, extra_typescript |-> ""],
      function_exports |-> EmptyMap,
      function_imports |-> EmptyMap,
      vendor_prefixes |-> EmptyMap,
      unique_crate_identifier |-> "",
      descriptors |-> EmptyMap ]

\* crate::intrinsic::Intrinsic::from_symbol: the intrinsic the name of an
\* import stands for, if any
IntrinsicSymbols == {"__wbindgen_throw"}
from_symbol(name) == IF name \in IntrinsicSymbols THEN Some(name) ELSE None

\* Intrinsic::binding: the signature of the intrinsic
intrinsic_binding(intrinsic) ==
    FunctionD(0, <<Boxed("Ref", Prim("String"))>>, Prim("Unit"))

\* AuxImport::Intrinsic and AuxImport::Closure, which carry no JsImport
AuxIntrinsic(intrinsic) ==
    [tag |-> "Intrinsic", kind |-> "", js |-> None, text |-> intrinsic]
AuxClosure(descriptor) ==
    [tag |-> "Closure", kind |-> "", js |-> None, text |-> "",
     descriptor |-> descriptor]

RECURSIVE register_closure_imports(_, _, _)
\* register_closure_imports that records the target of a closure import and
\* not its signature
register_closure_imports_unbound(self, closure_imports, i) ==
    IF i > Len(closure_imports) THEN self
    ELSE register_closure_imports(
             [self EXCEPT !.aux.import_map =
                 Insert(@, closure_imports[i].id,
                        AuxClosure(closure_imports[i].descriptor))],
             closure_imports, i + 1)

\* webidl.rs:493-505: the injected closure imports are bound one by one
register_closure_imports(self, closure_imports, i) ==
    IF i > Len(closure_imports) THEN self
    ELSE LET closure == closure_imports[i]
             binding == FunctionD(0, <<Prim("I32"), Prim("I32"), Prim("I32")>>,
                                  Prim("Anyref"))
         IN  register_closure_imports(
                 [self EXCEPT
                     !.aux.import_map =
                         Insert(@, closure.id, AuxClosure(closure.descriptor)),
                     !.bindings.imports =
                         Insert(@, closure.id, [tag |-> "Function",
                                                descriptor |-> binding])],
                 closure_imports, i + 1)

\* webidl.rs:448-507: Context::init
init(self) ==
    LET module == self.module
        exported == {i \in 1..Len(module.exports) :
                        module.exports[i].item = "Function"}
        imported == {i \in 1..Len(module.imports) :
                        /\ module.imports[i].module = PLACEHOLDER_MODULE
                        /\ module.imports[i].kind = "Function"}
        function_exports ==
            [name \in {module.exports[i].name : i \in exported} |->
                LET i == CHOOSE i \in exported : module.exports[i].name = name
                IN  [export_id |-> i, id |-> module.exports[i].f]]
        function_imports ==
            [name \in {module.imports[i].name : i \in imported} |->
                LET i == CHOOSE i \in imported : module.imports[i].name = name
                IN  [import_id |-> i, id |-> module.imports[i].f]]
        intrinsics == {i \in imported : from_symbol(module.imports[i].name) # None}
        mapped == [self EXCEPT
            !.function_exports = function_exports,
            !.function_imports = function_imports,
            !.bindings.imports =
                [i \in intrinsics |->
                    [tag |-> "Function",
                     descriptor |->
                        intrinsic_binding(from_symbol(module.imports[i].name)[1])]],
            !.aux.import_map =
                [i \in intrinsics |->
                    AuxIntrinsic(from_symbol(module.imports[i].name)[1])]]
    IN  IF module.descriptors_section = None THEN mapped
        ELSE register_closure_imports(
                 [mapped EXCEPT
                     !.module.descriptors_section = None,
                     !.descriptors = module.descriptors_section[1].descriptors],
                 module.descriptors_section[1].closure_imports, 1)

\* add_start_function that forgets it has registered a start function
add_start_function_unflagged(self, id) ==
    IF self.start_found THEN Bail(self, TwoStartFunctions)
    ELSE IF self.module.start = None
         THEN Proceed([self EXCEPT !.module.start = Some(id)])
         ELSE Proceed([self EXCEPT
                  !.module.funcs = Append(@, [ty |-> self.module.funcs[id].ty,
                                              body |-> <<Call(self.module.start[1]),
                                                         Call(id)>>]),
                  !.module.start = Some(Len(self.module.funcs) + 1)])

\* add_start_function that schedules the new function before the previous
\* start function
add_start_function_user_first(self, id) ==
    IF self.start_found THEN Bail(self, TwoStartFunctions)
    ELSE LET found == [self EXCEPT !.start_found = TRUE]
         IN  IF found.module.start = None
             THEN Proceed([found EXCEPT !.module.start = Some(id)])
             ELSE Proceed([found EXCEPT
                      !.module.funcs = Append(@, [ty |-> self.module.funcs[id].ty,
                                                  body |-> <<Call(id),
                                                             Call(self.module.start[1])>>]),
                      !.module.start = Some(Len(self.module.funcs) + 1)])

\* webidl.rs:643-668: Context::add_start_function
add_start_function(self, id) ==
    IF self.start_found THEN Bail(self, TwoStartFunctions)
    ELSE LET found == [self EXCEPT !.start_found = TRUE]
         IN  IF found.module.start = None
             THEN Proceed([found EXCEPT !.module.start = Some(id)])
             ELSE LET prev_start == found.module.start[1]
                      call1 == Call(prev_start)
                      call2 == Call(id)
                      ty == found.module.funcs[id].ty
                      new_start == Len(found.module.funcs) + 1
                  IN  Proceed([found EXCEPT
                          !.module.funcs = Append(@, [ty |-> ty,
                                                      body |-> <<call1, call2>>]),
                          !.module.start = Some(new_start)])

\* wasm_bindgen_shared::struct_function_export_name: the lowercased class
\* name, an underscore and the function name
to_lowercase(class) ==
    CASE class = "Foo" -> "foo"
      [] OTHER -> class
struct_function_export_name(class, f) == to_lowercase(class) \o "_" \o f

\* webidl.rs:579-582: the name the export has at the boundary
wasm_name_of(export) ==
    IF export.class # None
    THEN struct_function_export_name(export.class[1], export.function.name)
    ELSE export.function.name

\* AuxExportKind
AuxExportKind(tag, class, name, field, consumed) ==
    [tag |-> tag, class |-> class, name |-> name, field |-> field,
     consumed |-> consumed]

\* insert_pointer that puts the pointer after the arguments
insert_pointer_last(descriptor) ==
    FunctionD(descriptor.nums[1],
              arguments_of(descriptor) \o <<Prim("I32")>>, ret_of(descriptor))

\* descriptor.arguments.insert(0, Descriptor::I32)
insert_pointer(descriptor) ==
    FunctionD(descriptor.nums[1],
              <<Prim("I32")>> \o arguments_of(descriptor), ret_of(descriptor))

\* webidl.rs:592-628: the placement of the export and its descriptor
export_kind(export, descriptor) ==
    LET name == export.function.name
        as(kind, d) == [kind |-> kind, descriptor |-> d]
    IN  IF export.class = None
        THEN as(AuxExportKind("Function", "", name, "", FALSE), descriptor)
        ELSE LET class == export.class[1]
                 op == export.method_kind
             IN  CASE op.tag = "Constructor" ->
                        as(AuxExportKind("Constructor", class, "", "", FALSE),
                           descriptor)
                   [] op.tag = "Operation" /\ op.kind = "Getter" ->
                        as(AuxExportKind("Getter", class, "", op.field, FALSE),
                           insert_pointer(descriptor))
                   [] op.tag = "Operation" /\ op.kind = "Setter" ->
                        as(AuxExportKind("Setter", class, "", op.field, FALSE),
                           insert_pointer(descriptor))
                   [] OTHER ->
                        IF op.is_static
                        THEN as(AuxExportKind("StaticFunction", class, name, "",
                                              FALSE), descriptor)
                        ELSE as(AuxExportKind("Method", class, name, "",
                                              export.consumed),
                                insert_pointer(descriptor))

\* export that registers a start export before it looks its descriptor up
export_start_first(self, e) ==
    IF e.start /\ wasm_name_of(e) \in DOMAIN self.function_exports
    THEN add_start_function(self, self.function_exports[wasm_name_of(e)].id)
    ELSE Proceed(self)

\* webidl.rs:578-641: Context::export
export(self, e) ==
    LET wasm_name == wasm_name_of(e)
    IN  IF wasm_name \notin DOMAIN self.descriptors THEN Proceed(self)
        ELSE
          LET taken == [self EXCEPT !.descriptors = Remove(@, wasm_name)]
              descriptor == self.descriptors[wasm_name]
          IN  IF descriptor.tag # "Function" THEN Bail(taken, NotAFunction)
              ELSE IF wasm_name \notin DOMAIN self.function_exports
              THEN Bail(taken, NoSuchExport)
              ELSE
                LET export_id == self.function_exports[wasm_name].export_id
                    id == self.function_exports[wasm_name].id
                    started == IF e.start THEN add_start_function(taken, id)
                               ELSE Proceed(taken)
                    placed == export_kind(e, descriptor)
                IN  IF started.err # "" THEN started
                    ELSE Proceed([started.cx EXCEPT
                            !.aux.export_map =
                                Insert(@, export_id,
                                       [debug_name |-> wasm_name,
                                        arg_names |-> Some(e.function.arg_names),
                                        kind |-> placed.kind]),
                            !.bindings.exports =
                                Insert(@, export_id, placed.descriptor)])

\* the value under key k, or the default when the map has no such key
GetOr(map, k, default) == IF k \in DOMAIN map THEN map[k] ELSE default

\* JsImportName and JsImport
JsImportName(tag, module, name, prefixes, unique_crate_identifier, snippet_idx_in_crate) ==
    [tag |-> tag, module |-> module, name |-> name, prefixes |-> prefixes,
     unique_crate_identifier |-> unique_crate_identifier,
     snippet_idx_in_crate |-> snippet_idx_in_crate]
Global(name) == JsImportName("Global", "", name, <<>>, "", 0)
ModuleName(module, name) == JsImportName("Module", module, name, <<>>, "", 0)
LocalModule(module, name) == JsImportName("LocalModule", module, name, <<>>, "", 0)
InlineJs(unique_crate_identifier, snippet_idx_in_crate, name) ==
    JsImportName("InlineJs", "", name, <<>>, unique_crate_identifier,
                 snippet_idx_in_crate)
VendorPrefixed(name, prefixes) ==
    JsImportName("VendorPrefixed", "", name, prefixes, "", 0)
JsImport(name, fields) == [name |-> name, fields |-> fields]
NoJsImport == JsImport(Global(""), <<>>)

\* AuxImport; kind is the AuxValue variant of AuxImport::Value, js the
\* JsImport the variant carries and text the String it carries
AuxImport(tag, kind, js, text) ==
    [tag |-> tag, kind |-> kind, js |-> js, text |-> text]
ValueOf(kind, js, text) == AuxImport("Value", kind, js, text)

\* ImportBinding
ImportBinding(tag, descriptor) == [tag |-> tag, descriptor |-> descriptor]

\* decode::ImportModule
ImportModule(tag, name, idx) == [tag |-> tag, name |-> name, idx |-> idx]
NoModule == ImportModule("None", "", 0)

\* decode::Import with its decode::ImportKind; method is None or
\* Some([class, kind]) with kind a decode::MethodKind
ImportDecl(module, js_namespace, kind) ==
    [module |-> module, js_namespace |-> js_namespace, kind |-> kind]
ImportFunction(shim, catch, variadic, method, structural, name) ==
    [tag |-> "Function", shim |-> shim, catch |-> catch, variadic |-> variadic,
     method |-> method, structural |-> structural, function |-> [name |-> name],
     name |-> "", vendor_prefixes |-> <<>>]
ImportStatic(name, shim) ==
    [tag |-> "Static", shim |-> shim, catch |-> FALSE, variadic |-> FALSE,
     method |-> None, structural |-> FALSE, function |-> [name |-> ""],
     name |-> name, vendor_prefixes |-> <<>>]
ImportType(name, instanceof_shim, vendor_prefixes) ==
    [tag |-> "Type", shim |-> instanceof_shim, catch |-> FALSE, variadic |-> FALSE,
     method |-> None, structural |-> FALSE, function |-> [name |-> ""],
     name |-> name, vendor_prefixes |-> vendor_prefixes]
ImportEnum ==
    [tag |-> "Enum", shim |-> "", catch |-> FALSE, variadic |-> FALSE,
     method |-> None, structural |-> FALSE, function |-> [name |-> ""],
     name |-> "", vendor_prefixes |-> <<>>]

\* the messages of the errors of the import handlers
SnippetVendorPrefixes == "local JS snippets do not support vendor prefixes"
ModuleVendorPrefixes == "vendor prefixes aren't supported when importing from modules"
NamespaceVendorPrefixes == "import through js namespace isn't supported when it lists a polyfill"
IndexingGetterNotStructural == "indexing getters must always be structural"
IndexingSetterNotStructural == "indexing setters must always be structural"
IndexingDeleterNotStructural == "indexing deleters must always be structural"
LocalModuleMismatch == "panic: assertion failed: prev == module.contents"
NoVendorPrefixes == "panic: assertion failed: vendor_prefixes.len() > 0"

\* Result<JsImport, Error>
Resolved(js) == [err |-> "", js |-> js]
Unresolved(msg) == [err |-> msg, js |-> NoJsImport]

\* snippet_offset that counts no snippet
snippet_offset_none(self) == 0

\* webidl.rs:1077-1082: the number of snippets already registered under the
\* identifier of the unit being processed
snippet_offset(self) ==
    Len(GetOr(self.aux.snippets, self.unique_crate_identifier, <<>>))

\* webidl.rs:1011-1094: Context::determine_import
determine_import(self, import, item) ==
    LET is_local_snippet ==
            CASE import.module.tag = "Named" ->
                    import.module.name \in DOMAIN self.aux.local_modules
              [] import.module.tag = "RawNamed" -> FALSE
              [] import.module.tag = "Inline" -> TRUE
              [] OTHER -> FALSE
    IN  IF item \in DOMAIN self.vendor_prefixes
        THEN LET vendor_prefixes == self.vendor_prefixes[item]
             IN  IF Len(vendor_prefixes) = 0 THEN Unresolved(NoVendorPrefixes)
                 ELSE IF is_local_snippet THEN Unresolved(SnippetVendorPrefixes)
                 ELSE IF import.module.tag = "Named"
                 THEN Unresolved(ModuleVendorPrefixes)
                 ELSE IF import.js_namespace # None
                 THEN Unresolved(NamespaceVendorPrefixes)
                 ELSE Resolved(JsImport(VendorPrefixed(item, vendor_prefixes), <<>>))
        ELSE
          LET name == IF import.js_namespace # None THEN import.js_namespace[1]
                      ELSE item
              fields == IF import.js_namespace # None THEN <<item>> ELSE <<>>
              js_name ==
                CASE import.module.tag = "Named" /\ is_local_snippet ->
                        LocalModule(import.module.name, name)
                  [] import.module.tag = "Named" /\ ~is_local_snippet ->
                        ModuleName(import.module.name, name)
                  [] import.module.tag = "RawNamed" ->
                        ModuleName(import.module.name, name)
                  [] import.module.tag = "Inline" ->
                        LET offset == snippet_offset(self)
                        IN  InlineJs(self.unique_crate_identifier,
                                     import.module.idx + offset, name)
                  [] OTHER -> Global(name)
          IN  Resolved(JsImport(js_name, fields))

\* Result<(AuxImport, bool), Error>
Target(import, method) == [err |-> "", import |-> import, method |-> method]
NoTarget(msg) ==
    [err |-> msg, import |-> AuxImport("", "", NoJsImport, ""), method |-> FALSE]

\* class.fields.push(field)
push_field(class, field) == [class EXCEPT !.fields = Append(@, field)]

\* determine_import_op that takes an indexing operation that is not
\* structural as it takes a structural one
determine_import_op_lenient(class, function, structural, op) ==
    CASE op.kind = "IndexingGetter" ->
            IF op.is_static
            THEN Target(AuxImport("IndexingGetterOfClass", "", class, ""), FALSE)
            ELSE Target(AuxImport("IndexingGetterOfObject", "", NoJsImport, ""), FALSE)
      [] op.kind = "IndexingSetter" ->
            IF op.is_static
            THEN Target(AuxImport("IndexingSetterOfClass", "", class, ""), FALSE)
            ELSE Target(AuxImport("IndexingSetterOfObject", "", NoJsImport, ""), FALSE)
      [] op.kind = "IndexingDeleter" ->
            IF op.is_static
            THEN Target(AuxImport("IndexingDeleterOfClass", "", class, ""), FALSE)
            ELSE Target(AuxImport("IndexingDeleterOfObject", "", NoJsImport, ""), FALSE)
      [] OTHER -> Target(ValueOf("Bare", class, ""), FALSE)

\* determine_import_op that asks whether a Regular operation is structural
\* before it asks whether it is static
determine_import_op_structural_first(class, function, structural, op) ==
    IF op.kind # "Regular"
    THEN determine_import_op_lenient(class, function, structural, op)
    ELSE IF structural
    THEN Target(AuxImport("StructuralMethod", "", NoJsImport, function.name), FALSE)
    ELSE IF op.is_static
    THEN Target(ValueOf("Bare", push_field(class, function.name), ""), FALSE)
    ELSE Target(ValueOf("Bare",
                        push_field(push_field(class, "prototype"), function.name),
                        ""), TRUE)

\* determine_import_op that has a getter or a setter invoked as a method only
\* when it is not static
determine_import_op_static_function(class, function, structural, op) ==
    IF op.kind \notin {"Getter", "Setter"}
    THEN determine_import_op_lenient(class, function, structural, op)
    ELSE IF structural
    THEN IF op.is_static
         THEN Target(AuxImport("StructuralClass" \o op.kind, "", class, op.field),
                     FALSE)
         ELSE Target(AuxImport("Structural" \o op.kind, "", NoJsImport, op.field),
                     FALSE)
    ELSE Target(ValueOf(IF op.is_static THEN "Class" \o op.kind ELSE op.kind,
                        class, op.field), ~op.is_static)

\* webidl.rs:760-857: Context::determine_import_op
determine_import_op(class, function, structural, op) ==
    CASE op.kind = "Regular" ->
            IF op.is_static
            THEN Target(ValueOf("Bare", push_field(class, function.name), ""), FALSE)
            ELSE IF structural
            THEN Target(AuxImport("StructuralMethod", "", NoJsImport, function.name),
                        FALSE)
            ELSE Target(ValueOf("Bare",
                                push_field(push_field(class, "prototype"),
                                           function.name), ""), TRUE)
      [] op.kind = "Getter" ->
            IF structural
            THEN IF op.is_static
                 THEN Target(AuxImport("StructuralClassGetter", "", class, op.field),
                             FALSE)
                 ELSE Target(AuxImport("StructuralGetter", "", NoJsImport, op.field),
                             FALSE)
            ELSE Target(ValueOf(IF op.is_static THEN "ClassGetter" ELSE "Getter",
                                class, op.field), TRUE)
      [] op.kind = "Setter" ->
            IF structural
            THEN IF op.is_static
                 THEN Target(AuxImport("StructuralClassSetter", "", class, op.field),
                             FALSE)
                 ELSE Target(AuxImport("StructuralSetter", "", NoJsImport, op.field),
                             FALSE)
            ELSE Target(ValueOf(IF op.is_static THEN "ClassSetter" ELSE "Setter",
                                class, op.field), TRUE)
      [] op.kind = "IndexingGetter" ->
            IF ~structural THEN NoTarget(IndexingGetterNotStructural)
            ELSE IF op.is_static
            THEN Target(AuxImport("IndexingGetterOfClass", "", class, ""), FALSE)
            ELSE Target(AuxImport("IndexingGetterOfObject", "", NoJsImport, ""), FALSE)
      [] op.kind = "IndexingSetter" ->
            IF ~structural THEN NoTarget(IndexingSetterNotStructural)
            ELSE IF op.is_static
            THEN Target(AuxImport("IndexingSetterOfClass", "", class, ""), FALSE)
            ELSE Target(AuxImport("IndexingSetterOfObject", "", NoJsImport, ""), FALSE)
      [] op.kind = "IndexingDeleter" ->
            IF ~structural THEN NoTarget(IndexingDeleterNotStructural)
            ELSE IF op.is_static
            THEN Target(AuxImport("IndexingDeleterOfClass", "", class, ""), FALSE)
            ELSE Target(AuxImport("IndexingDeleterOfObject", "", NoJsImport, ""), FALSE)

\* import_function that binds an import whose descriptor is missing under
\* a descriptor of its own making
import_function_undescribed(self, import) ==
    LET f == import.kind
    IN  IF f.shim \notin DOMAIN self.function_imports THEN Proceed(self)
        ELSE LET import_id == self.function_imports[f.shim].import_id
             IN  Proceed([self EXCEPT
                    !.descriptors = Remove(@, f.shim),
                    !.bindings.imports =
                        Insert(@, import_id,
                               ImportBinding("Function",
                                             FunctionD(0, <<>>, Prim("Anyref")))),
                    !.aux.import_map =
                        Insert(@, import_id,
                               ValueOf("Bare", JsImport(Global(f.function.name), <<>>),
                                       ""))])

\* import_function that records the variadic and the catch flag of an import
\* before it looks for the import's descriptor
import_function_flags_first(self, import) ==
    LET f == import.kind
    IN  IF f.shim \notin DOMAIN self.function_imports THEN Proceed(self)
        ELSE
          LET import_id == self.function_imports[f.shim].import_id
              flagged == [self EXCEPT
                  !.descriptors = Remove(@, f.shim),
                  !.aux.imports_with_variadic =
                      IF f.variadic THEN @ \cup {import_id} ELSE @,
                  !.aux.imports_with_catch =
                      IF f.catch THEN @ \cup {import_id} ELSE @]
              record(binding, target) ==
                  Proceed([flagged EXCEPT
                      !.bindings.imports = Insert(@, import_id, binding),
                      !.aux.import_map = Insert(@, import_id, target)])
          IN  IF f.shim \notin DOMAIN self.descriptors THEN Proceed(flagged)
              ELSE IF self.descriptors[f.shim].tag # "Function"
              THEN Bail(flagged, NotAFunction)
              ELSE IF f.method # None
              THEN LET method_data == f.method[1]
                       class == determine_import(flagged, import, method_data.class)
                       op == determine_import_op(class.js, f.function, f.structural,
                                                 method_data.kind)
                   IN  IF class.err # "" THEN Bail(flagged, class.err)
                       ELSE IF method_data.kind.tag = "Constructor"
                       THEN record(ImportBinding("Constructor",
                                                 self.descriptors[f.shim]),
                                   ValueOf("Bare", class.js, ""))
                       ELSE IF op.err # "" THEN Bail(flagged, op.err)
                       ELSE record(ImportBinding(IF op.method THEN "Method"
                                                 ELSE "Function",
                                                 self.descriptors[f.shim]),
                                   op.import)
              ELSE LET name == determine_import(flagged, import, f.function.name)
                   IN  IF name.err # "" THEN Bail(flagged, name.err)
                       ELSE record(ImportBinding("Function", self.descriptors[f.shim]),
                                   ValueOf("Bare", name.js, ""))

\* webidl.rs:679-755: Context::import_function
import_function(self, import) ==
    LET f == import.kind
    IN  IF f.shim \notin DOMAIN self.function_imports THEN Proceed(self)
        ELSE IF f.shim \notin DOMAIN self.descriptors THEN Proceed(self)
        ELSE
          LET import_id == self.function_imports[f.shim].import_id
              descriptor == self.descriptors[f.shim]
              taken == [self EXCEPT !.descriptors = Remove(@, f.shim)]
              flagged == [taken EXCEPT
                  !.aux.imports_with_variadic =
                      IF f.variadic THEN @ \cup {import_id} ELSE @,
                  !.aux.imports_with_catch =
                      IF f.catch THEN @ \cup {import_id} ELSE @]
              bind(cx0, binding) ==
                  [cx0 EXCEPT !.bindings.imports = Insert(@, import_id, binding)]
              record(cx0, target) ==
                  Proceed([cx0 EXCEPT !.aux.import_map = Insert(@, import_id, target)])
          IN  IF descriptor.tag # "Function" THEN Bail(taken, NotAFunction)
              ELSE IF f.method # None
              THEN LET method_data == f.method[1]
                       class == determine_import(flagged, import, method_data.class)
                   IN  IF class.err # "" THEN Bail(flagged, class.err)
                       ELSE IF method_data.kind.tag = "Constructor"
                       THEN record(bind(flagged, ImportBinding("Constructor", descriptor)),
                                ValueOf("Bare", class.js, ""))
                       ELSE LET op == determine_import_op(class.js, f.function,
                                                          f.structural, method_data.kind)
                            IN  IF op.err # "" THEN Bail(flagged, op.err)
                                ELSE record(bind(flagged,
                                              ImportBinding(IF op.method THEN "Method"
                                                            ELSE "Function",
                                                            descriptor)),
                                         op.import)
              ELSE LET bound == bind(flagged, ImportBinding("Function", descriptor))
                       name == determine_import(bound, import, f.function.name)
                   IN  IF name.err # "" THEN Bail(bound, name.err)
                       ELSE record(bound, ValueOf("Bare", name.js, ""))

\* webidl.rs:859-886: Context::import_static
import_static(self, import) ==
    LET static_ == import.kind
    IN  IF static_.shim \notin DOMAIN self.function_imports THEN Proceed(self)
        ELSE
          LET import_id == self.function_imports[static_.shim].import_id
              bound == [self EXCEPT !.bindings.imports =
                  Insert(@, import_id,
                         ImportBinding("Function", FunctionD(0, <<>>, Prim("Anyref"))))]
              name == determine_import(bound, import, static_.name)
          IN  IF name.err # "" THEN Bail(bound, name.err)
              ELSE Proceed([bound EXCEPT !.aux.import_map =
                      Insert(@, import_id, AuxImport("Static", "", name.js, ""))])

\* webidl.rs:888-915: Context::import_type
import_type(self, import) ==
    LET type_ == import.kind
    IN  IF type_.shim \notin DOMAIN self.function_imports THEN Proceed(self)
        ELSE
          LET import_id == self.function_imports[type_.shim].import_id
              bound == [self EXCEPT !.bindings.imports =
                  Insert(@, import_id,
                         ImportBinding("Function",
                                       FunctionD(0, <<Boxed("Ref", Prim("Anyref"))>>,
                                                 Prim("I32"))))]
              name == determine_import(bound, import, type_.name)
          IN  IF name.err # "" THEN Bail(bound, name.err)
              ELSE Proceed([bound EXCEPT !.aux.import_map =
                      Insert(@, import_id, AuxImport("Instanceof", "", name.js, ""))])

\* webidl.rs:670-677: Context::import
import_(self, import) ==
    CASE import.kind.tag = "Function" -> import_function(self, import)
      [] import.kind.tag = "Static" -> import_static(self, import)
      [] import.kind.tag = "Type" -> import_type(self, import)
      [] OTHER -> Proceed(self)

\* decode::Enum, decode::Struct and decode::StructField
EnumDecl(name, variants) == [name |-> name, variants |-> variants]
StructDecl(name, fields) == [name |-> name, fields |-> fields]
StructField(name, readonly) == [name |-> name, readonly |-> readonly]

\* wasm_bindgen_shared::struct_field_get, struct_field_set and new_function:
\* the boundary names of the accessors of a field and of the function that
\* wraps a pointer in the class
struct_field_get(struct_name, f) ==
    "__wbg_get_" \o to_lowercase(struct_name) \o "_" \o f
struct_field_set(struct_name, f) ==
    "__wbg_set_" \o to_lowercase(struct_name) \o "_" \o f
new_function(struct_name) == "__wbg_" \o to_lowercase(struct_name) \o "_new"

\* webidl.rs:917-929: Context::enum_
enum_(self, e) ==
    Proceed([self EXCEPT !.aux.enums =
                Append(@, [name |-> e.name, variants |-> e.variants])])

\* the AuxExport of an accessor of a struct field; the debug name is given
\* without the quotes the code puts around the path of the field
AccessorExport(accessor, struct_name, field_name) ==
    [debug_name |-> (IF accessor = "Getter" THEN "getter for " ELSE "setter for ")
                        \o struct_name \o "::" \o field_name,
     arg_names |-> None,
     kind |-> AuxExportKind(accessor, struct_name, "", field_name, FALSE)]

RECURSIVE struct_fields(_, _, _)
\* struct_fields that gives a read-only field a setter as well
struct_fields_writable(self, s, i) ==
    IF i > Len(s.fields) THEN Proceed(self)
    ELSE
      LET field == s.fields[i]
          getter == struct_field_get(s.name, field.name)
          setter == struct_field_set(s.name, field.name)
          taken == [self EXCEPT !.descriptors = Remove(@, getter)]
      IN  IF getter \notin DOMAIN self.descriptors
          THEN struct_fields(self, s, i + 1)
          ELSE IF getter \notin DOMAIN self.function_exports
                  \/ setter \notin DOMAIN self.function_exports
          THEN Bail(taken, NoSuchExport)
          ELSE struct_fields(
                   [taken EXCEPT
                       !.bindings.exports =
                           Insert(Insert(@, self.function_exports[getter].export_id,
                                         FunctionD(0, <<Prim("I32")>>,
                                                   self.descriptors[getter])),
                                  self.function_exports[setter].export_id,
                                  FunctionD(0, <<Prim("I32"), self.descriptors[getter]>>,
                                            Prim("Unit"))),
                       !.aux.export_map =
                           Insert(Insert(@, self.function_exports[getter].export_id,
                                         AccessorExport("Getter", s.name, field.name)),
                                  self.function_exports[setter].export_id,
                                  AccessorExport("Setter", s.name, field.name))],
                   s, i + 1)

\* struct_fields that records the signature of a getter and not its metadata
struct_fields_unplaced(self, s, i) ==
    IF i > Len(s.fields) THEN Proceed(self)
    ELSE
      LET field == s.fields[i]
          getter == struct_field_get(s.name, field.name)
          taken == [self EXCEPT !.descriptors = Remove(@, getter)]
      IN  IF getter \notin DOMAIN self.descriptors
          THEN struct_fields(self, s, i + 1)
          ELSE IF getter \notin DOMAIN self.function_exports
          THEN Bail(taken, NoSuchExport)
          ELSE struct_fields(
                   [taken EXCEPT !.bindings.exports =
                       Insert(@, self.function_exports[getter].export_id,
                              FunctionD(0, <<Prim("I32")>>, self.descriptors[getter]))],
                   s, i + 1)

\* webidl.rs:932-985: the fields of the struct from the i-th on
struct_fields(self, s, i) ==
    IF i > Len(s.fields) THEN Proceed(self)
    ELSE
      LET field == s.fields[i]
          getter == struct_field_get(s.name, field.name)
          setter == struct_field_set(s.name, field.name)
      IN  IF getter \notin DOMAIN self.descriptors
          THEN struct_fields(self, s, i + 1)
          ELSE
            LET descriptor == self.descriptors[getter]
                taken == [self EXCEPT !.descriptors = Remove(@, getter)]
            IN  IF getter \notin DOMAIN self.function_exports
                THEN Bail(taken, NoSuchExport)
                ELSE
                  LET getter_id == self.function_exports[getter].export_id
                      getter_descriptor == FunctionD(0, <<Prim("I32")>>, descriptor)
                      got == [taken EXCEPT
                          !.bindings.exports = Insert(@, getter_id, getter_descriptor),
                          !.aux.export_map =
                              Insert(@, getter_id,
                                     AccessorExport("Getter", s.name, field.name))]
                  IN  IF field.readonly THEN struct_fields(got, s, i + 1)
                      ELSE IF setter \notin DOMAIN self.function_exports
                      THEN Bail(got, NoSuchExport)
                      ELSE
                        LET setter_id == self.function_exports[setter].export_id
                            setter_descriptor ==
                                FunctionD(0, <<Prim("I32"), descriptor>>, Prim("Unit"))
                        IN  struct_fields(
                                [got EXCEPT
                                    !.bindings.exports =
                                        Insert(@, setter_id, setter_descriptor),
                                    !.aux.export_map =
                                        Insert(@, setter_id,
                                               AccessorExport("Setter", s.name,
                                                              field.name))],
                                s, i + 1)

\* webidl.rs:931-1009: Context::struct_
struct_(self, s) ==
    LET fielded == struct_fields(self, s, 1)
        wrap_constructor == new_function(s.name)
        pushed == [fielded.cx EXCEPT !.aux.structs = Append(@, [name |-> s.name])]
    IN  IF fielded.err # "" THEN fielded
        ELSE IF wrap_constructor \notin DOMAIN pushed.function_imports
        THEN Proceed(pushed)
        ELSE LET import_id == pushed.function_imports[wrap_constructor].import_id
             IN  Proceed([pushed EXCEPT
                     !.aux.import_map =
                         Insert(@, import_id,
                                AuxImport("WrapInExportedClass", "", NoJsImport,
                                          s.name)),
                     !.bindings.imports =
                         Insert(@, import_id,
                                ImportBinding("Function",
                                              FunctionD(0, <<Prim("I32")>>,
                                                        Prim("Anyref"))))])

\* webidl.rs:566-569: a typescript section is added to the extra text
typescript_section(self, section) ==
    [self EXCEPT !.aux.extra_typescript = @ \o section \o "\n\n"]

RECURSIVE register_local_modules(_, _, _)
\* register_local_modules that keeps the first content and accepts any other
register_local_modules_first_wins(self, local_modules, i) ==
    IF i > Len(local_modules) THEN Proceed(self)
    ELSE LET module == local_modules[i]
         IN  register_local_modules(
                 IF module.identifier \in DOMAIN self.aux.local_modules THEN self
                 ELSE [self EXCEPT !.aux.local_modules =
                          Insert(@, module.identifier, module.contents)],
                 local_modules, i + 1)

\* webidl.rs:523-534: the local modules of a unit are registered one by one
register_local_modules(self, local_modules, i) ==
    IF i > Len(local_modules) THEN Proceed(self)
    ELSE LET module == local_modules[i]
             inserted == [self EXCEPT !.aux.local_modules =
                             Insert(@, module.identifier, module.contents)]
         IN  IF /\ module.identifier \in DOMAIN self.aux.local_modules
                /\ self.aux.local_modules[module.identifier] # module.contents
             THEN Bail(inserted, LocalModuleMismatch)
             ELSE register_local_modules(inserted, local_modules, i + 1)

\* program_enter that registers the snippets of the unit as it enters it
program_enter_with_snippets(self, program) ==
    register_local_modules(
        [self EXCEPT
            !.unique_crate_identifier = program.unique_crate_identifier,
            !.aux.snippets =
                Insert(@, program.unique_crate_identifier,
                       GetOr(@, program.unique_crate_identifier, <<>>)
                           \o program.inline_js)],
        program.local_modules, 1)

\* program_enter that registers no local module
program_enter_unregistered(self, program) ==
    Proceed([self EXCEPT !.unique_crate_identifier = program.unique_crate_identifier])

\* webidl.rs:509-537: Context::program up to its exports
program_enter(self, program) ==
    register_local_modules(
        [self EXCEPT !.unique_crate_identifier = program.unique_crate_identifier],
        program.local_modules, 1)

RECURSIVE register_vendor_prefixes(_, _, _)
\* register_vendor_prefixes that puts a type's prefixes in the place of those
\* registered before
register_vendor_prefixes_latest(self, imports, i) ==
    IF i > Len(imports) THEN self
    ELSE LET ty == imports[i].kind
         IN  IF ty.tag # "Type" \/ Len(ty.vendor_prefixes) = 0
             THEN register_vendor_prefixes(self, imports, i + 1)
             ELSE register_vendor_prefixes(
                      [self EXCEPT !.vendor_prefixes =
                          Insert(@, ty.name, ty.vendor_prefixes)],
                      imports, i + 1)

\* webidl.rs:545-555: the vendor prefixes of the unit's type imports
register_vendor_prefixes(self, imports, i) ==
    IF i > Len(imports) THEN self
    ELSE LET ty == imports[i].kind
         IN  IF ty.tag # "Type" \/ Len(ty.vendor_prefixes) = 0
             THEN register_vendor_prefixes(self, imports, i + 1)
             ELSE register_vendor_prefixes(
                      [self EXCEPT !.vendor_prefixes =
                          Insert(@, ty.name,
                                 GetOr(@, ty.name, <<>>) \o ty.vendor_prefixes)],
                      imports, i + 1)

\* program_leave that puts the snippets of the unit before those registered
program_leave_prepending(self, program) ==
    [self EXCEPT !.aux.snippets =
        Insert(@, program.unique_crate_identifier,
               program.inline_js \o GetOr(@, program.unique_crate_identifier, <<>>))]

\* webidl.rs:570-575: the snippets of the unit are registered before
\* Context::program returns
program_leave(self, program) ==
    [self EXCEPT !.aux.snippets =
        Insert(@, program.unique_crate_identifier,
               GetOr(@, program.unique_crate_identifier, <<>>) \o program.inline_js)]

RECURSIVE verify_imports(_, _, _)
\* webidl.rs:1099-1133: the checks of the placeholder imports; counted is
\* imports_counted
verify_imports(self, i, counted) ==
    IF i > Len(self.module.imports)
    THEN IF Cardinality(DOMAIN self.aux.import_map) # counted
         THEN "import map is larger than the number of imports"
         ELSE IF Cardinality(DOMAIN self.bindings.imports) # counted
         THEN "import binding map is larger than the number of imports"
         ELSE ""
    ELSE LET import == self.module.imports[i]
         IN  IF import.module # PLACEHOLDER_MODULE
             THEN verify_imports(self, i + 1, counted)
             ELSE IF import.kind # "Function"
             THEN "import from placeholder was not a function"
             ELSE IF i \notin DOMAIN self.aux.import_map
             THEN "import doesn't have an import map item listed"
             ELSE IF i \notin DOMAIN self.bindings.imports
             THEN "import doesn't have a binding listed"
             ELSE verify_imports(self, i + 1, counted + 1)

\* verify that does not compare the sizes of the export maps
verify_unsized(self) ==
    LET imports == verify_imports(self, 1, 0)
    IN  IF imports # "" THEN imports
        ELSE IF \E id \in DOMAIN self.bindings.exports :
                    id \notin DOMAIN self.aux.export_map
        THEN "bindings map has an entry that the export map does not"
        ELSE ""

\* verify that accepts every record set
verify_accepting(self) == ""

\* webidl.rs:1098-1148: Context::verify; "" is Ok(())
verify(self) ==
    LET imports == verify_imports(self, 1, 0)
    IN  IF imports # "" THEN imports
        ELSE IF \E id \in DOMAIN self.bindings.exports :
                    id \notin DOMAIN self.aux.export_map
        THEN "bindings map has an entry that the export map does not"
        ELSE IF Cardinality(DOMAIN self.bindings.exports)
                    # Cardinality(DOMAIN self.aux.export_map)
        THEN "export map and export bindings map have different sizes"
        ELSE ""

\* webidl.rs:442-443: the two records become custom sections of the module
attach(self) ==
    [self EXCEPT !.module.customs =
        @ \o <<"webidl custom section", "wasm-bindgen custom section">>]

(* The modules and the program units the pass is run on. *)

\* the module exports its memory and then some of these functions, which
\* are its functions 1..3; function 4 is a start function injected upstream
ExportNames == <<"main", "boot", "foo_get">>
InjectedStart == Len(ExportNames) + 1

\* a descriptor section describing the given names
DescriptorsSection(names) ==
    [descriptors |->
        [name \in names |->
            IF name = "foo_get"
            THEN FunctionD(0, <<Prim("U32")>>, Prim("I32"))
            ELSE FunctionD(0, <<>>, Prim("Unit"))],
     closure_imports |-> <<>>]

\* the exports of a module that exports the given functions
RECURSIVE ExportsOf(_, _)
ExportsOf(exported, i) ==
    IF i > Len(ExportNames) THEN <<>>
    ELSE IF ExportNames[i] \in exported
    THEN <<[name |-> ExportNames[i], item |-> "Function", f |-> i]>>
             \o ExportsOf(exported, i + 1)
    ELSE ExportsOf(exported, i + 1)

Module(exported, described, start) ==
    [ funcs |-> [i \in 1..InjectedStart |->
                    Compiled(IF i = 3 THEN "(i32, i32) -> i32" ELSE "() -> ()", i)],
      start |-> start,
      exports |-> <<[name |-> "memory", item |-> "Memory", f |-> 0]>>
                      \o ExportsOf(exported, 1),
      imports |-> <<>>,
      descriptors_section |-> described,
      customs |-> <<>> ]

Modules ==
    {Module(exported, described, start) :
        exported \in {{"main", "boot", "foo_get"}, {"main", "foo_get"}},
        described \in {None} \cup
            {Some(DescriptorsSection(names)) :
                names \in SUBSET {"main", "boot", "foo_get"}},
        start \in {None, Some(InjectedStart)}}

EmptyModule ==
    [funcs |-> <<>>, start |-> None, exports |-> <<>>, imports |-> <<>>,
     descriptors_section |-> None, customs |-> <<>>]

\* decode::MethodKind with its decode::Operation
Constructor == [tag |-> "Constructor", kind |-> "", is_static |-> FALSE, field |-> ""]
Operation(kind, is_static, field) ==
    [tag |-> "Operation", kind |-> kind, is_static |-> is_static, field |-> field]

\* decode::Export
ExportDecl(class, name, start, method_kind) ==
    [class |-> class, function |-> [name |-> name, arg_names |-> <<>>],
     start |-> start, method_kind |-> method_kind, consumed |-> FALSE]

\* an export of a method that takes its receiver by value
Consumed(e) == [e EXCEPT !.consumed = TRUE]

\* the exports a program unit may declare
Exports ==
    {ExportDecl(None, name, start, Constructor) :
        name \in {"main", "boot"}, start \in BOOLEAN}
    \cup {ExportDecl(Some("Foo"), "get", FALSE, Constructor)}
    \cup {ExportDecl(Some("Foo"), "get", FALSE,
                     Operation(kind, is_static, IF kind = "Regular" THEN "" ELSE "x")) :
            kind \in {"Regular", "Getter", "Setter"}, is_static \in BOOLEAN}
    \cup {Consumed(ExportDecl(Some("Foo"), "get", FALSE, Operation("Regular", FALSE, "")))}

\* the functions a module may import from the placeholder module; the
\* module imports its memory first, so their import ids are 2 and 3
ShimNames == <<"shim_a", "shim_b">>

RECURSIVE ImportsOf(_, _)
ImportsOf(imported, i) ==
    IF i > Len(ShimNames) THEN <<>>
    ELSE IF ShimNames[i] \in imported
    THEN <<[module |-> PLACEHOLDER_MODULE, name |-> ShimNames[i],
            kind |-> "Function", f |-> InjectedStart + i]>>
             \o ImportsOf(imported, i + 1)
    ELSE ImportsOf(imported, i + 1)

\* a module that imports the given shims and has descriptors of the given
\* names
ImportingModule(imported, described) ==
    [Module({"main", "boot"}, Some(DescriptorsSection(described)), None)
        EXCEPT !.imports = <<[module |-> "env", name |-> "memory",
                              kind |-> "Memory", f |-> 0]>>
                               \o ImportsOf(imported, 1)]

\* decode::Program without its exports and imports, which the handlers are
\* given one by one
Program(unique_crate_identifier, local_modules, inline_js) ==
    [unique_crate_identifier |-> unique_crate_identifier,
     local_modules |-> local_modules,
     inline_js |-> inline_js]
LocalModuleDecl(identifier, contents) ==
    [identifier |-> identifier, contents |-> contents]

\* a sentinel section holding n chunks of the compiled-in schema version
RECURSIVE MatchingChunks(_)
MatchingChunks(n) ==
    IF n = 0 THEN [name |-> SentinelName, data |-> <<>>, chunks |-> <<>>]
    ELSE LET less == MatchingChunks(n - 1)
         IN  [less EXCEPT !.data = @ \o ChunkBytes("match", <<7>>),
                          !.chunks = Append(@, [kind |-> "match", body |-> <<7>>])]

\* a sentinel section holding one chunk of another schema version
SkewedSection ==
    [name |-> SentinelName, data |-> ChunkBytes("skew", <<7>>),
     chunks |-> <<[kind |-> "skew", body |-> <<7>>]>>]

\* the custom sections of a module that carries up to MaxPrograms units
UnitSections == {<<MatchingChunks(n)>> : n \in 0..MaxPrograms}


-----------------------------------------------------------------------------
(* SpecDecode: the stream is written word by word, then decoded.           *)

NoAnswer == [fn |-> "none", flag |-> FALSE, count |-> 0, kind |-> "None"]

IdleCodec == data = <<>> /\ decoded = NotRun
IdleAbi == subject = Prim("Unit") /\ answer = NoAnswer
IdleExtract == customs = <<>> /\ program_storage = <<>> /\ extracted = NotExtracted
IdlePass ==
    /\ cx = NewContext(EmptyModule)
    /\ pc = "idle"
    /\ programs_begun = 0
    /\ handled = <<>>
    /\ units = <<>>
    /\ cursor = 0
    /\ imports_handled = <<>>
    /\ result = "none"

InitDecode ==
    /\ data \in Preambles
    /\ decoded = NotRun
    /\ IdleAbi
    /\ IdleExtract
    /\ IdlePass

\* one more word of the stream is written (describe's inform(word))
Emit(w) ==
    /\ decoded = NotRun
    /\ Len(data) < Preamble(data) + MaxLen
    /\ data' = Append(data, w)
    /\ UNCHANGED <<decoded, subject, answer, extractVars, passVars>>

\* Descriptor::decode(data)
Decode ==
    /\ decoded = NotRun
    /\ decoded' = decode(data)
    /\ UNCHANGED <<data, subject, answer, extractVars, passVars>>

NextDecode ==
    \/ \E w \in Words : Emit(w)
    \/ Decode

SpecDecode == InitDecode /\ [][NextDecode]_vars

-----------------------------------------------------------------------------
(* SpecAbi: a descriptor is drawn and the ABI queries are applied to it.   *)

InitAbi ==
    /\ IdleCodec
    /\ IdleExtract
    /\ subject \in DescriptorsOfDepth(MaxDepth)
    /\ answer = NoAnswer
    /\ IdlePass

AskVectorKind ==
    /\ answer' = [NoAnswer EXCEPT !.fn = "vector_kind", !.kind = vector_kind(subject)]
    /\ UNCHANGED <<data, decoded, subject, extractVars, passVars>>

AskAbiReturnedThroughPointer ==
    /\ answer' = [NoAnswer EXCEPT !.fn = "abi_returned_through_pointer",
                                  !.flag = abi_returned_through_pointer(subject)]
    /\ UNCHANGED <<data, decoded, subject, extractVars, passVars>>

AskAbiArgCount ==
    /\ answer' = [NoAnswer EXCEPT !.fn = "abi_arg_count",
                                  !.count = abi_arg_count(subject)]
    /\ UNCHANGED <<data, decoded, subject, extractVars, passVars>>

NextAbi ==
    \/ AskVectorKind
    \/ AskAbiReturnedThroughPointer
    \/ AskAbiArgCount

SpecAbi == InitAbi /\ [][NextAbi]_vars

-----------------------------------------------------------------------------
(* SpecExtract: sections are added to the module and chunks written to     *)
(* them, then extract_programs runs once.                                  *)

InitExtract ==
    /\ IdleCodec
    /\ IdleAbi
    /\ IdleExtract
    /\ IdlePass

\* the module gains an empty custom section of the given name
NewSection(name) ==
    /\ extracted = NotExtracted
    /\ Len(customs) < MaxSections
    /\ customs' = Append(customs, [name |-> name, data |-> <<>>, chunks |-> <<>>])
    /\ UNCHANGED <<codecVars, abiVars, passVars, program_storage, extracted>>

\* a chunk is written at the end of the module's last section; a chunk that
\* is cut short (no body, or a length running past the end) ends its payload
WriteChunk(kind, body) ==
    /\ extracted = NotExtracted
    /\ customs # <<>>
    /\ TotalChunks(customs) < MaxChunks
    /\ kind # "match" => body = <<7>>
    /\ LET last == customs[Len(customs)]
       IN  /\ last.chunks # <<>> =>
                last.chunks[Len(last.chunks)].kind \notin CutShortKinds
           /\ customs' = [customs EXCEPT ![Len(customs)] =
                [last EXCEPT !.data = last.data \o ChunkBytes(kind, body),
                             !.chunks = Append(last.chunks,
                                               [kind |-> kind, body |-> body])]]
    /\ UNCHANGED <<codecVars, abiVars, passVars, program_storage, extracted>>

\* webidl.rs:1171-1239: extract_programs. remove_raw hands out the sentinel
\* sections in an order the module decides; the rest stay in the module.
ExtractPrograms ==
    /\ extracted = NotExtracted
    /\ LET sentinel == {i \in 1..Len(customs) : customs[i].name = SentinelName}
       IN  \E order \in Orders(sentinel) :
              /\ program_storage' = Pick(customs, order)
              /\ customs' = Remaining(customs, 1)
              /\ extracted' = extract_storage(Pick(customs, order), 1, <<>>)
    /\ UNCHANGED <<codecVars, abiVars, passVars>>

NextExtract ==
    \/ \E name \in {SentinelName, "producers"} : NewSection(name)
    \/ \E kind \in ChunkKinds, body \in Bodies : WriteChunk(kind, body)
    \/ ExtractPrograms

SpecExtract == InitExtract /\ [][NextExtract]_vars

-----------------------------------------------------------------------------
(* Spec: process extracts the program units, runs Context::init, then the  *)
(* units one after the other, then the verifier, and attaches the records. *)
(* The exports and imports of a unit are given to the handlers one by one. *)
(* The type imports of a unit are fixed when its exports are through, as   *)
(* the vendor prefixes are read from them before any import is handled;    *)
(* they are then handled in their order, among the unit's other imports.   *)
(* Spec itself runs on units that declare exports only.                    *)

\* process is called on one of the modules, with one of the section lists
PassInit(modules, sections) ==
    /\ IdleCodec
    /\ IdleAbi
    /\ customs \in sections
    /\ program_storage = <<>>
    /\ extracted = NotExtracted
    /\ cx \in {NewContext(module) : module \in modules}
    /\ pc = "extract"
    /\ programs_begun = 0
    /\ handled = <<>>
    /\ units = <<>>
    /\ cursor = 0
    /\ imports_handled = <<>>
    /\ result = "running"

Init == PassInit(Modules, UnitSections)

\* webidl.rs:420-421: extract_programs(module, &mut storage)?
ProcessExtract ==
    /\ pc = "extract"
    /\ LET sentinel == {i \in 1..Len(customs) : customs[i].name = SentinelName}
       IN  \E order \in Orders(sentinel) :
              LET r == extract_storage(Pick(customs, order), 1, <<>>)
              IN  /\ program_storage' = Pick(customs, order)
                  /\ customs' = Remaining(customs, 1)
                  /\ extracted' = r
                  /\ pc' = IF r.status = "ok" THEN "init" ELSE "done"
                  /\ result' = IF r.status = "ok" THEN result ELSE r.status
    /\ UNCHANGED <<codecVars, abiVars, cx, programs_begun, handled, units, cursor, imports_handled>>

\* webidl.rs:434: cx.init()
ContextInit ==
    /\ pc = "init"
    /\ cx' = init(cx)
    /\ pc' = "programs"
    /\ UNCHANGED <<codecVars, abiVars, extractVars, programs_begun, handled,
                   units, cursor, imports_handled, result>>

\* webidl.rs:509-537: Context::program is entered with the next unit; a
\* local module registered with other contents aborts the pass
BeginProgram(program) ==
    /\ pc = "programs"
    /\ programs_begun < Len(extracted.programs)
    /\ LET r == program_enter(cx, program)
       IN  /\ cx' = r.cx
           /\ pc' = IF r.err = "" THEN "exports" ELSE "done"
           /\ result' = IF r.err = "" THEN result ELSE r.err
    /\ programs_begun' = programs_begun + 1
    /\ units' = Append(units, [program |-> program, types |-> <<>>,
                                items |-> <<>>])
    /\ cursor' = 0
    /\ UNCHANGED <<codecVars, abiVars, extractVars, handled, imports_handled>>

\* webidl.rs:538-540: the next export of the unit goes through
\* Context::export; an error ends the pass
Export(e) ==
    /\ pc = "exports"
    /\ Len(handled) < MaxExports
    /\ LET r == export(cx, e)
       IN  /\ cx' = r.cx
           /\ handled' = Append(handled,
                  [program |-> programs_begun,
                   export |-> e,
                   described |-> wasm_name_of(e) \in DOMAIN cx.descriptors,
                   exported |-> wasm_name_of(e) \in DOMAIN cx.function_exports,
                   err |-> r.err])
           /\ pc' = IF r.err = "" THEN "exports" ELSE "done"
           /\ result' = IF r.err = "" THEN result ELSE r.err
    /\ UNCHANGED <<codecVars, abiVars, extractVars, programs_begun, units, cursor, imports_handled>>

\* an inline import of the unit refers to one of the unit's snippets
RefersToSnippet(import, program) ==
    import.module.tag = "Inline" => import.module.idx < Len(program.inline_js)

\* webidl.rs:541-555: the unit has no more exports; the vendor prefixes of
\* its type imports are registered
CollectVendorPrefixes(types) ==
    /\ pc = "exports"
    /\ \A i \in 1..Len(types) :
          RefersToSnippet(types[i], units[programs_begun].program)
    /\ cx' = register_vendor_prefixes(cx, types, 1)
    /\ units' = [units EXCEPT ![programs_begun].types = types]
    /\ cursor' = 0
    /\ pc' = "imports"
    /\ UNCHANGED <<codecVars, abiVars, extractVars, programs_begun, handled, imports_handled, result>>

\* the import goes through Context::import; an error ends the pass
HandleImport(import) ==
    LET r == import_(cx, import)
    IN  /\ cx' = r.cx
        /\ imports_handled' = Append(imports_handled, [program |-> programs_begun,
                                    import |-> import,
                                    described |-> import.kind.shim \in DOMAIN cx.descriptors,
                                    err |-> r.err])
        /\ pc' = IF r.err = "" THEN "imports" ELSE "done"
        /\ result' = IF r.err = "" THEN result ELSE r.err

\* webidl.rs:556-558: the next type import of the unit is handled
ImportDeclaredType ==
    /\ pc = "imports"
    /\ cursor < Len(units[programs_begun].types)
    /\ HandleImport(units[programs_begun].types[cursor + 1])
    /\ cursor' = cursor + 1
    /\ UNCHANGED <<codecVars, abiVars, extractVars, programs_begun, handled, units>>

\* webidl.rs:556-558: an import of the unit that is not a type import is
\* handled
Import(import) ==
    /\ pc = "imports"
    /\ import.kind.tag # "Type"
    /\ Cardinality({i \in 1..Len(imports_handled) : imports_handled[i].import.kind.tag # "Type"})
          < MaxImports
    /\ RefersToSnippet(import, units[programs_begun].program)
    /\ HandleImport(import)
    /\ UNCHANGED <<codecVars, abiVars, extractVars, programs_begun, handled, units, cursor>>

\* webidl.rs:556-558: the imports of the unit are through
ImportsDone == pc = "imports" /\ cursor = Len(units[programs_begun].types)

\* the number of enums, structs and typescript sections of the first n units
\* that were handled
RECURSIVE ItemsHandled(_)
ItemsHandled(n) ==
    IF n = 0 THEN 0 ELSE ItemsHandled(n - 1) + Len(units[n].items)

\* the units have had fewer than MaxItems enums, structs and typescript
\* sections between them; the step adds one to those of the unit, for a
\* struct with the fields whose getter the descriptor table holds
ItemHandled(kind, decl, described, err) ==
    /\ ItemsHandled(Len(units)) < MaxItems
    /\ units' = [units EXCEPT ![programs_begun].items =
                    Append(@, [kind |-> kind, decl |-> decl,
                               described |-> described, err |-> err])]

\* webidl.rs:560-562: the next enum of the unit goes through Context::enum_
Enum(e) ==
    /\ ImportsDone \/ pc = "enums"
    /\ ItemHandled("enum", e, {}, "")
    /\ cx' = enum_(cx, e).cx
    /\ pc' = "enums"
    /\ UNCHANGED <<codecVars, abiVars, extractVars, programs_begun, handled,
                   cursor, imports_handled, result>>

\* webidl.rs:563-565: the next struct of the unit goes through
\* Context::struct_; an error ends the pass
Struct(s) ==
    /\ ImportsDone \/ pc \in {"enums", "structs"}
    /\ LET r == struct_(cx, s)
       IN  /\ ItemHandled("struct", s,
                          {i \in 1..Len(s.fields) :
                              struct_field_get(s.name, s.fields[i].name)
                                  \in DOMAIN cx.descriptors},
                          r.err)
           /\ cx' = r.cx
           /\ pc' = IF r.err = "" THEN "structs" ELSE "done"
           /\ result' = IF r.err = "" THEN result ELSE r.err
    /\ UNCHANGED <<codecVars, abiVars, extractVars, programs_begun, handled,
                   cursor, imports_handled>>

\* webidl.rs:566-569: the next typescript section of the unit is added
Typescript(section) ==
    /\ ImportsDone \/ pc \in {"enums", "structs", "typescript"}
    /\ ItemHandled("typescript", section, {}, "")
    /\ cx' = typescript_section(cx, section)
    /\ pc' = "typescript"
    /\ UNCHANGED <<codecVars, abiVars, extractVars, programs_begun, handled,
                   cursor, imports_handled, result>>

\* webidl.rs:570-576: the unit has no more enums, structs and typescript
\* sections; its snippets are registered and Context::program returns
EndProgram ==
    /\ ImportsDone \/ pc \in {"enums", "structs", "typescript"}
    /\ cx' = program_leave(cx, units[programs_begun].program)
    /\ pc' = "programs"
    /\ UNCHANGED <<codecVars, abiVars, extractVars, programs_begun, handled,
                   units, cursor, imports_handled, result>>

\* webidl.rs:440: cx.verify()? once the units are through
Verify ==
    /\ pc = "programs"
    /\ programs_begun = Len(extracted.programs)
    /\ LET err == verify(cx)
       IN  /\ pc' = IF err = "" THEN "attach" ELSE "done"
           /\ result' = IF err = "" THEN result ELSE err
    /\ UNCHANGED <<codecVars, abiVars, extractVars, cx, programs_begun, handled,
                   units, cursor, imports_handled>>

\* webidl.rs:442-444
Attach ==
    /\ pc = "attach"
    /\ cx' = attach(cx)
    /\ pc' = "done"
    /\ result' = "ok"
    /\ UNCHANGED <<codecVars, abiVars, extractVars, programs_begun, handled,
                   units, cursor, imports_handled>>

\* a unit of crate "c1" without local modules and snippets
PlainProgram == Program("c1", <<>>, <<>>)

Next ==
    \/ ProcessExtract
    \/ ContextInit
    \/ BeginProgram(PlainProgram)
    \/ \E e \in Exports : Export(e)
    \/ CollectVendorPrefixes(<<>>)
    \/ EndProgram
    \/ Verify
    \/ Attach

Spec == Init /\ [][Next]_vars

-----------------------------------------------------------------------------
(* SpecImports: process runs on a module that imports shims from the       *)
(* placeholder module, with one program unit whose imports are functions.  *)

\* the modules: any of the shims imported, any of them described
ImportingModules ==
    {ImportingModule(imported, described) :
        imported \in SUBSET {"shim_a", "shim_b"},
        described \in SUBSET {"shim_a", "shim_b"}}

\* decode::ImportKind::Function with a method of a class
MethodOf(class, kind) == Some([class |-> class, kind |-> kind])

\* the operations of decode::OperationKind
OperationKinds ==
    {"Regular", "Getter", "Setter",
     "IndexingGetter", "IndexingSetter", "IndexingDeleter"}

\* the function imports a program unit may declare: free functions, which
\* may catch and be variadic, and constructors and operations of class Foo,
\* reached directly or through the namespace ns
FunctionImports ==
    {ImportDecl(NoModule, None,
                ImportFunction("shim_a", catch, variadic, None, FALSE, "f")) :
        catch \in BOOLEAN, variadic \in BOOLEAN}
    \cup {ImportDecl(NoModule, None,
                     ImportFunction("shim_b", FALSE, FALSE, None, FALSE, "g"))}
    \cup {ImportDecl(NoModule, None,
                     ImportFunction("shim_a", FALSE, FALSE,
                                    MethodOf("Foo", Constructor), FALSE, "new"))}
    \cup {ImportDecl(NoModule, None,
                     ImportFunction("shim_b", FALSE, FALSE,
                                    MethodOf("Foo", Operation(kind, is_static, "x")),
                                    structural, "f")) :
            kind \in OperationKinds,
            is_static \in BOOLEAN, structural \in BOOLEAN}
    \cup {ImportDecl(NoModule, Some("ns"),
                     ImportFunction("shim_a", FALSE, FALSE,
                                    MethodOf("Foo", Operation(kind, TRUE, "x")),
                                    TRUE, "f")) :
            kind \in {"IndexingGetter", "IndexingSetter", "IndexingDeleter"}}

InitImports == PassInit(ImportingModules, {<<MatchingChunks(1)>>})

NextImports ==
    \/ ProcessExtract
    \/ ContextInit
    \/ BeginProgram(PlainProgram)
    \/ CollectVendorPrefixes(<<>>)
    \/ \E import \in FunctionImports : Import(import)
    \/ EndProgram
    \/ Verify
    \/ Attach

SpecImports == InitImports /\ [][NextImports]_vars

-----------------------------------------------------------------------------
(* SpecNames: process runs on two program units whose type imports declare *)
(* vendor prefixes and whose other imports come from every kind of origin. *)

\* the decode::ImportModule variants
Named(name) == ImportModule("Named", name, 0)
RawNamed(name) == ImportModule("RawNamed", name, 0)
Inline(idx) == ImportModule("Inline", "", idx)

\* a type import from the global scope
TypeOf(name, instanceof_shim, vendor_prefixes) ==
    ImportDecl(NoModule, None, ImportType(name, instanceof_shim, vendor_prefixes))

\* the type imports a unit may declare: none, or a type N with or without
\* vendor prefixes, with or without an instanceof shim the module imports
TypeImports ==
    { <<>>,
      <<TypeOf("N", "", <<>>)>>,
      <<TypeOf("N", "", <<"webkit">>)>>,
      <<TypeOf("N", "shim_b", <<"moz", "ms">>)>> }

\* the origins an import may come from
Origins == {NoModule, Named("m.js"), Named("other"), RawNamed("raw"), Inline(0)}

\* the other imports a unit may declare: a static N from every origin, with
\* and without a namespace, a function N and a static x from the global scope
NamedImports ==
    {ImportDecl(module, js_namespace, ImportStatic("N", "shim_a")) :
        module \in Origins, js_namespace \in {None, Some("ns")}}
    \cup {ImportDecl(NoModule, None,
                     ImportFunction("shim_b", FALSE, FALSE, None, FALSE, "N")),
          ImportDecl(NoModule, None, ImportStatic("x", "shim_b"))}

\* a unit of crate "c1" with a local module and a snippet
SnippetProgram == Program("c1", <<LocalModuleDecl("m.js", "A")>>, <<"js0">>)

\* the module imports shim_a, or both shims with a descriptor for shim_b
NamingModules ==
    {ImportingModule({"shim_a"}, {}),
     ImportingModule({"shim_a", "shim_b"}, {"shim_b"})}

InitNames == PassInit(NamingModules, {<<MatchingChunks(2)>>})

NextNames ==
    \/ ProcessExtract
    \/ ContextInit
    \/ \E program \in {PlainProgram, SnippetProgram} : BeginProgram(program)
    \/ \E types \in TypeImports : CollectVendorPrefixes(types)
    \/ ImportDeclaredType
    \/ \E import \in NamedImports : Import(import)
    \/ EndProgram
    \/ Verify
    \/ Attach

SpecNames == InitNames /\ [][NextNames]_vars

-----------------------------------------------------------------------------
(* SpecSnippets: process runs on two program units that register local     *)
(* modules and snippets and import from their snippets.                    *)

\* the units: of crate "c1" or "c2" with up to two snippets, or of crate
\* "c1" with one snippet and local modules
SnippetPrograms ==
    {Program(unique_crate_identifier, <<>>, inline_js) :
        unique_crate_identifier \in {"c1", "c2"},
        inline_js \in {<<>>, <<"js0">>, <<"js0", "js1">>, <<"js2", "js3">>}}
    \cup {Program("c1", local_modules, <<"js0">>) :
            local_modules \in
                { <<LocalModuleDecl("m.js", "A")>>,
                  <<LocalModuleDecl("m.js", "B")>>,
                  <<LocalModuleDecl("m.js", "A"), LocalModuleDecl("m.js", "A")>>,
                  <<LocalModuleDecl("m.js", "A"), LocalModuleDecl("n.js", "B")>>,
                  <<LocalModuleDecl("n.js", "A"), LocalModuleDecl("n.js", "B")>> }}

\* the imports: a static x from one of the first two snippets of its unit,
\* or from the module m.js, named or raw-named
SnippetImports ==
    {ImportDecl(Inline(idx), None, ImportStatic("x", shim)) :
        idx \in {0, 1}, shim \in {"shim_a", "shim_b"}}
    \cup {ImportDecl(Named("m.js"), None, ImportStatic("x", "shim_a")),
          ImportDecl(RawNamed("m.js"), None, ImportStatic("x", "shim_b"))}

InitSnippets ==
    PassInit({ImportingModule({"shim_a", "shim_b"}, {})}, {<<MatchingChunks(2)>>})

NextSnippets ==
    \/ ProcessExtract
    \/ ContextInit
    \/ \E program \in SnippetPrograms : BeginProgram(program)
    \/ CollectVendorPrefixes(<<>>)
    \/ \E import \in SnippetImports : Import(import)
    \/ EndProgram
    \/ Verify
    \/ Attach

SpecSnippets == InitSnippets /\ [][NextSnippets]_vars

-----------------------------------------------------------------------------
(* SpecVerify: the units are through and have left some record set; the    *)
(* verifier runs on it and the records are attached when it accepts.       *)

\* what a module may import: its memory from elsewhere, or a function or a
\* table from the placeholder module
WalrusImports ==
    { [module |-> "env", name |-> "memory", kind |-> "Memory", f |-> 0],
      [module |-> PLACEHOLDER_MODULE, name |-> "shim", kind |-> "Function",
       f |-> InjectedStart + 1],
      [module |-> PLACEHOLDER_MODULE, name |-> "table", kind |-> "Table", f |-> 0] }

\* the lists of up to n imports
RECURSIVE ImportLists(_)
ImportLists(n) ==
    IF n = 0 THEN {<<>>}
    ELSE ImportLists(n - 1)
         \cup {Append(imports, import) :
                  imports \in {l \in ImportLists(n - 1) : Len(l) = n - 1},
                  import \in WalrusImports}

\* a map with the given keys, all to one value
MapOf(keys, value) == [k \in keys |-> value]

\* the record sets: any keys in the four maps, for a module with one of the
\* import lists
RecordSets(lists) ==
    {[NewContext([EmptyModule EXCEPT !.imports = imports]) EXCEPT
        !.bindings.imports =
            MapOf(bound, ImportBinding("Function", FunctionD(0, <<>>, Prim("Unit")))),
        !.aux.import_map =
            MapOf(targeted, ValueOf("Bare", JsImport(Global("x"), <<>>), "")),
        !.bindings.exports = MapOf(signed, FunctionD(0, <<>>, Prim("Unit"))),
        !.aux.export_map =
            MapOf(placed, [debug_name |-> "x", arg_names |-> None,
                           kind |-> AuxExportKind("Function", "", "x", "", FALSE)])] :
        imports \in lists,
        bound \in SUBSET (1..MaxImports),
        targeted \in SUBSET (1..MaxImports),
        signed \in SUBSET (1..MaxExports),
        placed \in SUBSET (1..MaxExports)}

InitVerify ==
    /\ IdleCodec
    /\ IdleAbi
    /\ customs = <<>>
    /\ program_storage = <<>>
    /\ extracted = Extracted("ok", <<>>, <<>>)
    /\ cx \in RecordSets(ImportLists(MaxImports))
    /\ pc = "programs"
    /\ programs_begun = 0
    /\ handled = <<>>
    /\ units = <<>>
    /\ cursor = 0
    /\ imports_handled = <<>>
    /\ result = "running"

NextVerify ==
    \/ Verify
    \/ Attach

SpecVerify == InitVerify /\ [][NextVerify]_vars

-----------------------------------------------------------------------------
(* SpecProcess: process runs on inputs that make every step fail or pass.  *)

\* a module whose exports and import are described, with and without the
\* import
ProcessModules ==
    {Module({"main", "boot"}, Some(DescriptorsSection({"main", "boot"})), None),
     ImportingModule({"shim_a"}, {"shim_a", "main", "boot"})}

\* one unit, two units, or a unit of another schema version
ProcessSections ==
    {<<MatchingChunks(1)>>, <<MatchingChunks(2)>>, <<SkewedSection>>}

\* a unit without local modules, and one whose local modules differ
ProcessPrograms ==
    {PlainProgram,
     Program("c1", <<LocalModuleDecl("m.js", "A"), LocalModuleDecl("m.js", "B")>>,
             <<>>)}

\* two start functions
ProcessExports ==
    {ExportDecl(None, name, TRUE, Constructor) : name \in {"main", "boot"}}

\* a function f, and an indexing getter that is not structural
ProcessImports ==
    {ImportDecl(NoModule, None,
                ImportFunction("shim_a", FALSE, FALSE, None, FALSE, "f")),
     ImportDecl(NoModule, None,
                ImportFunction("shim_a", FALSE, FALSE,
                               MethodOf("Foo", Operation("IndexingGetter", FALSE, "")),
                               FALSE, "get"))}

InitProcess == PassInit(ProcessModules, ProcessSections)

NextProcess ==
    \/ ProcessExtract
    \/ ContextInit
    \/ \E program \in ProcessPrograms : BeginProgram(program)
    \/ \E e \in ProcessExports : Export(e)
    \/ CollectVendorPrefixes(<<>>)
    \/ \E import \in ProcessImports : Import(import)
    \/ EndProgram
    \/ Verify
    \/ Attach

SpecProcess == InitProcess /\ [][NextProcess]_vars

-----------------------------------------------------------------------------
(* SpecItems: process runs on two program units that declare exports,      *)
(* imports, enums, structs and typescript sections, over a module with     *)
(* accessors of struct fields, an intrinsic and an injected closure import. *)

\* the functions the module may export after its memory, and the functions
\* it may import from the placeholder module after its memory
ItemExportNames ==
    <<"main", "__wbg_get_foo_x", "__wbg_set_foo_x", "__wbg_get_foo_y",
      "__wbg_set_foo_y">>
ItemImportNames ==
    <<"shim_a", "__wbg_foo_new", "__wbindgen_throw", "__wbindgen_closure_wrapper0">>

\* the items of the list whose names are chosen, in their order
RECURSIVE ItemsOf(_, _, _)
ItemsOf(items, chosen, i) ==
    IF i > Len(items) THEN <<>>
    ELSE (IF items[i].name \in chosen THEN <<items[i]>> ELSE <<>>)
             \o ItemsOf(items, chosen, i + 1)

ExportItems ==
    [i \in 1..Len(ItemExportNames) |->
        [name |-> ItemExportNames[i], item |-> "Function", f |-> i]]
ImportItems ==
    [i \in 1..Len(ItemImportNames) |->
        [module |-> PLACEHOLDER_MODULE, name |-> ItemImportNames[i],
         kind |-> "Function", f |-> Len(ItemExportNames) + i]]

\* the descriptors section: a function type for main and shim_a, the type
\* of the field for the getters; the closure import, when the module has
\* it, is listed with the closure it is to fabricate
ItemDescriptors(described, imports) ==
    [descriptors |->
        [name \in described |->
            IF name \in {"main", "shim_a"} THEN FunctionD(0, <<>>, Prim("Unit"))
            ELSE Prim("U32")],
     closure_imports |->
        LET ids == {i \in 1..Len(imports) :
                        imports[i].name = "__wbindgen_closure_wrapper0"}
        IN  IF ids = {} THEN <<>>
            ELSE <<[id |-> CHOOSE i \in ids : TRUE,
                    descriptor |->
                        ClosureD(1, 2, FALSE, FunctionD(0, <<>>, Prim("Unit")))]>>]

ItemsModule(exported, imported, described) ==
    LET imports == <<[module |-> "env", name |-> "memory", kind |-> "Memory",
                      f |-> 0]>>
                      \o ItemsOf(ImportItems, imported, 1)
    IN  [ funcs |-> [i \in 1..Len(ItemExportNames) |-> Compiled("() -> ()", i)],
          start |-> None,
          exports |-> <<[name |-> "memory", item |-> "Memory", f |-> 0]>>
                          \o ItemsOf(ExportItems, exported, 1),
          imports |-> imports,
          descriptors_section |-> Some(ItemDescriptors(described, imports)),
          customs |-> <<>> ]

\* the modules: one with every accessor exported and described and every
\* import, one with nothing described, one without the setter of x and one
\* without any accessor, both with the getter of x described
ItemsModules ==
    {ItemsModule({"main", "__wbg_get_foo_x", "__wbg_set_foo_x", "__wbg_get_foo_y",
                  "__wbg_set_foo_y"},
                 {"shim_a", "__wbg_foo_new", "__wbindgen_throw",
                  "__wbindgen_closure_wrapper0"},
                 described) :
        described \in {{}, {"main", "shim_a", "__wbg_get_foo_x", "__wbg_get_foo_y"}}}
    \cup {ItemsModule(exported, {"shim_a"}, {"main", "shim_a", "__wbg_get_foo_x"}) :
            exported \in {{"main", "__wbg_get_foo_x"}, {"main"}}}

\* what the units declare
ItemExports == {ExportDecl(None, "main", FALSE, Constructor)}
ItemTypes == {<<TypeOf("N", "", <<"webkit">>)>>}
ItemImports ==
    {ImportDecl(NoModule, None,
                ImportFunction("shim_a", TRUE, FALSE, None, FALSE, "f")),
     ImportDecl(Named("m"), None, ImportStatic("N", "shim_a"))}
ItemEnums == {EnumDecl("E", <<[name |-> "A", value |-> 0]>>)}
ItemStructs ==
    {StructDecl("Foo", <<StructField("x", FALSE), StructField("y", TRUE)>>),
     StructDecl("Foo", <<>>)}
ItemSections == {"ts"}
ItemPrograms == {Program("c1", <<>>, <<"js0">>)}

InitItems == PassInit(ItemsModules, {<<MatchingChunks(2)>>})

NextItems ==
    \/ ProcessExtract
    \/ ContextInit
    \/ \E program \in ItemPrograms : BeginProgram(program)
    \/ \E e \in ItemExports : Export(e)
    \/ \E types \in ItemTypes : CollectVendorPrefixes(types)
    \/ ImportDeclaredType
    \/ \E import \in ItemImports : Import(import)
    \/ \E e \in ItemEnums : Enum(e)
    \/ \E s \in ItemStructs : Struct(s)
    \/ \E section \in ItemSections : Typescript(section)
    \/ EndProgram
    \/ Verify
    \/ Attach

SpecItems == InitItems /\ [][NextItems]_vars

-----------------------------------------------------------------------------
(* Claims about the descriptor codec.                                      *)

Prefix(s, k) == SubSeq(s, 1, k)

\* some strict, non-empty prefix of s is the exact encoding of one descriptor
EncodesOneThenMore(s) ==
    \E k \in 1..(Len(s) - 1) :
        LET r == _decode(Prefix(s, k), FALSE) IN r.ok /\ r.rest = <<>>

\* C1: Descriptor::decode returns a descriptor only when the top-level
\* descriptor consumes the whole stream: a stream that is the encoding of one
\* descriptor followed by one or more extra opcodes makes decode panic on the
\* remaining data, and no descriptor is returned.
C1_LeftoverOpcodesAreFatal ==
    decoded # NotRun =>
        /\ EncodesOneThenMore(data) =>
              ~decoded.ok /\ decoded.why = "remaining data"
        /\ decoded.ok => _decode(data, FALSE).rest = <<>>

\* an over-long stream was decoded: a boxed descriptor followed by extra words
C1_Witness ==
    /\ decoded # NotRun
    /\ EncodesOneThenMore(data)
    /\ Len(data) >= 3
    /\ data[1] \in {REF, FUNCTION}
    /\ ~decoded.ok

\* C2: every strict prefix (the empty stream included) of a stream that
\* decodes successfully makes Descriptor::decode fail, whatever composite
\* forms the stream holds.
C2_TruncatedStreamFails ==
    decoded.ok =>
        \A k \in 0..(Len(data) - 1) : ~decode(Prefix(data, k)).ok

\* a mutable closure, the longest composite form, was decoded successfully
C2_Witness ==
    /\ decoded.ok
    /\ decoded.d.tag = "Closure"
    /\ decoded.d.nums[3] = 1
    /\ ret_of(inner(decoded.d)).tag = "U8"

\* what CLAMPED does to the descriptor that follows it: the U8 at the end of
\* a chain of Ref, RefMut, Slice, Vector and Option boxes becomes ClampedU8
RECURSIVE ClampedForm(_)
ClampedForm(d) ==
    CASE d.tag = "U8" -> Prim("ClampedU8")
      [] d.tag \in BoxTags -> Boxed(d.tag, ClampedForm(inner(d)))
      [] OTHER -> d

\* C6 as stated: CLAMPED followed by U8 decodes to ClampedU8, and CLAMPED
\* followed by the encoding of any other descriptor decodes to exactly that
\* descriptor.
C6_ClampedOnlyRetagsBareU8 ==
    (decoded # NotRun /\ data # <<>> /\ Head(data) = CLAMPED) =>
        LET plain == decode(Tail(data))
        IN  plain.ok =>
                /\ decoded.ok
                /\ decoded.d = IF plain.d = Prim("U8") THEN Prim("ClampedU8")
                               ELSE plain.d

\* C6 (amended): a CLAMPED opcode is consumed together with the encoding that
\* follows it; the stream decodes exactly when the encoding alone does, and to
\* the same descriptor except that a U8 reached through Ref, RefMut, Slice,
\* Vector and Option boxes only (the bare U8 included) is ClampedU8. The
\* arguments and the return type of a function or closure are not affected.
C6_ClampedRetagsU8ThroughBoxes ==
    (decoded # NotRun /\ data # <<>> /\ Head(data) = CLAMPED) =>
        LET plain == decode(Tail(data))
        IN  /\ decoded.ok = plain.ok
            /\ plain.ok => decoded.d = ClampedForm(plain.d)

\* CLAMPED in front of a slice of U8, and in front of a function returning U8
C6_Witness ==
    /\ decoded.ok
    /\ Head(data) = CLAMPED
    /\ \/ decoded.d = Boxed("RefMut", Boxed("Slice", Prim("ClampedU8")))
       \/ decoded.d = FunctionD(0, <<>>, Prim("U8"))

-----------------------------------------------------------------------------
(* Claims about the ABI queries.                                           *)

NarrowOrHandleTags ==
    {"Anyref", "RustStruct", "Enum", "Char", "Boolean", "I8", "U8", "I16", "U16"}

\* C3: abi_returned_through_pointer(D) is true exactly when D has a vector
\* kind, or is I64 or U64, or is Option(T) with T none of Anyref, RustStruct,
\* Enum, Char, Boolean, I8, U8, I16, U16.
C3_ReturnedThroughPointer ==
    answer.fn = "abi_returned_through_pointer" =>
        answer.flag =
            (\/ vector_kind(subject) # "None"
             \/ subject.tag \in {"I64", "U64"}
             \/ subject.tag = "Option" /\ inner(subject).tag \notin NarrowOrHandleTags)

\* the query answered false for Option(U16) or true for Option(F32)
C3_Witness ==
    /\ answer.fn = "abi_returned_through_pointer"
    /\ \/ subject = Boxed("Option", Prim("U16")) /\ ~answer.flag
       \/ subject = Boxed("Option", Prim("F32")) /\ answer.flag

\* C4: abi_arg_count(D) is 4 for Option of a 64-bit integer, 1 for
\* Option(Ref(Anyref)), otherwise 2 for a stack closure or a descriptor
\* returned through a pointer, and 1 in every remaining case; a plain I64 or
\* U64 gives 2 and a plain F32 gives 1.
C4_ArgCount ==
    answer.fn = "abi_arg_count" =>
        /\ answer.count =
              (IF subject.tag = "Option" /\ inner(subject).tag \in {"I64", "U64"}
               THEN 4
               ELSE IF subject = Boxed("Option", Boxed("Ref", Prim("Anyref")))
               THEN 1
               ELSE IF \/ subject.tag \in {"Ref", "RefMut"}
                          /\ inner(subject).tag = "Function"
                       \/ abi_returned_through_pointer(subject)
               THEN 2
               ELSE 1)
        /\ subject.tag \in {"I64", "U64"} => answer.count = 2
        /\ subject.tag = "F32" => answer.count = 1

\* the count of a stack closure, which is not returned through a pointer
C4_Witness ==
    /\ answer.fn = "abi_arg_count"
    /\ subject.tag = "RefMut"
    /\ inner(subject).tag = "Function"
    /\ answer.count = 2

\* the shapes C5 lists: String, Vector(T), Slice(T), Ref(Slice(T)), RefMut(Slice(T))
ListedVectorShape(d) ==
    \/ d.tag \in {"String", "Vector", "Slice"}
    \/ d.tag \in {"Ref", "RefMut"} /\ inner(d).tag = "Slice"

\* C5 as stated: vector_kind(D) is Some only for the shapes String, Vector(T),
\* Slice(T), Ref(Slice(T)) and RefMut(Slice(T)).
C5_VectorKindOnlyListedShapes ==
    (answer.fn = "vector_kind" /\ answer.kind # "None") => ListedVectorShape(subject)

\* C5 (amended): vector_kind(D) is Some only for the shapes String, Vector(T),
\* Slice(T), Ref(Slice(T)), RefMut(Slice(T)) and Ref(String); for every other
\* shape, RefMut(String) and references to references included, it is None.
C5_VectorKindShapes ==
    (answer.fn = "vector_kind" /\ answer.kind # "None") =>
        \/ ListedVectorShape(subject)
        \/ subject = Boxed("Ref", Prim("String"))

\* vector_kind answered Some for a reference to a slice of a vector element
C5_Witness ==
    /\ answer.fn = "vector_kind"
    /\ subject = Boxed("RefMut", Boxed("Slice", Prim("F64")))
    /\ answer.kind = "F64"

-----------------------------------------------------------------------------
(* Claims about the program extractor.                                     *)

\* the chunks written to the removed sections, in the order of removal and
\* then of position in the payload
RECURSIVE ChunksOf(_, _)
ChunksOf(storage, i) ==
    IF i > Len(storage) THEN <<>>
    ELSE storage[i].chunks \o ChunksOf(storage, i + 1)

RemovedChunks == ChunksOf(program_storage, 1)

\* some chunk header of a sentinel section carries another schema version
SkewedHeaderPresent ==
    \E k \in 1..Len(RemovedChunks) : RemovedChunks[k].kind \in SkewKinds

\* the chunks before chunk k all carry the compiled-in schema version
FirstToFail(chunks, k) == \A j \in 1..(k - 1) : chunks[j].kind = "match"

\* C7 as stated: if any chunk header in any sentinel section carries a schema
\* version other than the compiled-in one, extract_programs fails with the
\* version-mismatch error and returns no program units.
C7_SkewIsVersionMismatch ==
    (extracted # NotExtracted /\ SkewedHeaderPresent) =>
        extracted.status = "version mismatch" /\ extracted.programs = <<>>

\* C7 (amended): if any chunk header in any sentinel section carries a schema
\* version other than the compiled-in one, extract_programs does not succeed
\* and returns no program units, however many earlier chunks matched. It
\* fails with the version-mismatch error naming the header's version when
\* every earlier chunk matched and the header has a "version" field, and
\* with the malformed-data error when every earlier chunk matched and the
\* header has no "version" field; an earlier chunk that is malformed or cut
\* short decides the failure instead.
C7_SkewFailsWithoutPrograms ==
    (extracted # NotExtracted /\ SkewedHeaderPresent) =>
        /\ extracted.status \in {"version mismatch", "malformed", "panic"}
        /\ extracted.programs = <<>>
        /\ \A k \in 1..Len(RemovedChunks) :
              FirstToFail(RemovedChunks, k) =>
                 /\ RemovedChunks[k].kind = "skew" =>
                       /\ extracted.status = "version mismatch"
                       /\ extracted.their_version = <<66>>
                 /\ RemovedChunks[k].kind = "skew_anonymous" =>
                       extracted.status = "malformed"

\* a skewed header in the second removed section, after two matching chunks
C7_Witness ==
    /\ extracted.status = "version mismatch"
    /\ Len(program_storage) = 2
    /\ Len(RemovedChunks) = 3
    /\ RemovedChunks[3].kind = "skew"
    /\ program_storage[2].chunks # <<>>

\* C8: when extraction succeeds no sentinel-named section is left in the
\* module and the output list holds exactly one program unit per (header,
\* body) pair, in the order the sections were removed and then in the order
\* of the pairs in each payload.
C8_OneProgramPerChunkInOrder ==
    extracted.status = "ok" =>
        /\ \A i \in 1..Len(customs) : customs[i].name # SentinelName
        /\ \A i \in 1..Len(program_storage) :
              program_storage[i].name = SentinelName
        /\ extracted.programs =
              [k \in 1..Len(RemovedChunks) |-> decode_all(RemovedChunks[k].body)]

\* two sections were removed and three programs came out of them
C8_Witness ==
    /\ extracted.status = "ok"
    /\ Len(program_storage) = 2
    /\ program_storage[1].chunks # <<>>
    /\ extracted.programs = <<decode_all(<<7>>), decode_all(<<8>>), decode_all(<<7>>)>>

-----------------------------------------------------------------------------
(* Claims about exports and the start function.                            *)

\* the handler found the export's descriptor and its function: the export
\* was not skipped and was registered as a start function if marked as one
Processed(h) == h.described /\ h.exported

\* C9: two start exports are rejected, in the same unit or in different
\* units: once an export marked as start has been processed, processing a
\* second export marked as start fails the pass with the two-start-functions
\* error.
C9_TwoStartExportsRejected ==
    \A i, j \in 1..Len(handled) :
        (/\ i < j
         /\ handled[i].export.start /\ Processed(handled[i])
         /\ handled[j].export.start /\ Processed(handled[j]))
        => /\ handled[j].err = TwoStartFunctions
           /\ j = Len(handled)
           /\ pc = "done"
           /\ result = TwoStartFunctions

\* the second start export is in a later unit than the first
C9_Witness ==
    /\ Len(handled) = 2
    /\ handled[1].export.start /\ Processed(handled[1])
    /\ handled[2].export.start /\ Processed(handled[2])
    /\ handled[1].program = 1
    /\ handled[2].program = 2
    /\ result = TwoStartFunctions

\* the step is an export handler that registers its function as the start
RegistersStart == pc = "exports" /\ ~cx.start_found /\ cx'.start_found

\* the function of the export the step handled
StartExport == cx.function_exports[wasm_name_of(handled'[Len(handled')].export)].id

\* C10: registering a start export S makes S the module's start when the
\* module has none; when the module has a start P, the start becomes a newly
\* appended function whose body calls P and then S, and every function the
\* module had, P and S among them, is left as it was.
C10_StartInstalledOrChained ==
    [][RegistersStart =>
        LET S == StartExport
            funcs == cx.module.funcs
        IN  IF cx.module.start = None
            THEN /\ cx'.module.start = Some(S)
                 /\ cx'.module.funcs = funcs
            ELSE LET P == cx.module.start[1]
                     new_start == Len(funcs) + 1
                 IN  /\ cx'.module.start = Some(new_start)
                     /\ Len(cx'.module.funcs) = new_start
                     /\ cx'.module.funcs[new_start].body = <<Call(P), Call(S)>>
                     /\ \A f \in 1..Len(funcs) : cx'.module.funcs[f] = funcs[f]
    ]_vars

\* the start injected upstream and the exported boot function were chained
C10_Witness ==
    /\ cx.start_found
    /\ cx.module.start = Some(InjectedStart + 1)
    /\ cx.module.funcs[InjectedStart + 1].body = <<Call(InjectedStart), Call(2)>>
    /\ cx.module.funcs[InjectedStart] = Compiled("() -> ()", InjectedStart)
    /\ Len(handled) > 0
    /\ handled[Len(handled)].export.function.name = "boot"

-----------------------------------------------------------------------------
(* Claims about the export handler.                                        *)

\* the export the step hands to Context::export
ExportHandled == handled'[Len(handled')]

\* the step is an export handler that finds no descriptor for its export
SkipsExport ==
    /\ pc = "exports"
    /\ Len(handled') = Len(handled) + 1
    /\ ~ExportHandled.described

\* C11: an export whose boundary name has no descriptor is skipped: the
\* handler returns success and leaves the signature record, the metadata
\* record, the descriptor table, the start-found flag and the module's start
\* function as they were, even when the export is marked as a start function.
C11_UndescribedExportIsSkipped ==
    [][SkipsExport =>
        /\ ExportHandled.err = ""
        /\ pc' = "exports"
        /\ result' = result
        /\ cx'.bindings = cx.bindings
        /\ cx'.aux = cx.aux
        /\ cx'.descriptors = cx.descriptors
        /\ cx'.start_found = cx.start_found
        /\ cx'.module.start = cx.module.start
        /\ cx'.module.funcs = cx.module.funcs
    ]_vars

\* a start export of an exported function was skipped for want of a
\* descriptor while other descriptors were in the table
C11_Witness ==
    /\ handled # <<>>
    /\ handled[Len(handled)].export.start
    /\ ~handled[Len(handled)].described
    /\ handled[Len(handled)].exported
    /\ handled[Len(handled)].err = ""
    /\ ~cx.start_found
    /\ cx.descriptors # EmptyMap
    /\ pc = "exports"

\* the step is an export handler that records its export
RecordsExport ==
    /\ pc = "exports"
    /\ Len(handled') = Len(handled) + 1
    /\ Processed(ExportHandled)
    /\ ExportHandled.err = ""

\* the placement an export is to get
PlacementOf(e) ==
    LET name == e.function.name
        op == e.method_kind
    IN  IF e.class = None THEN AuxExportKind("Function", "", name, "", FALSE)
        ELSE IF op.tag = "Constructor"
        THEN AuxExportKind("Constructor", e.class[1], "", "", FALSE)
        ELSE IF op.kind = "Getter"
        THEN AuxExportKind("Getter", e.class[1], "", op.field, FALSE)
        ELSE IF op.kind = "Setter"
        THEN AuxExportKind("Setter", e.class[1], "", op.field, FALSE)
        ELSE IF op.is_static
        THEN AuxExportKind("StaticFunction", e.class[1], name, "", FALSE)
        ELSE AuxExportKind("Method", e.class[1], name, "", e.consumed)

\* C12: a processed export with a descriptor of n arguments is recorded with
\* a signature of n + 1 arguments, I32 first and the n arguments after it in
\* order, when it is a class getter, setter or non-static method, and with
\* the n arguments when it is a free function, constructor or static
\* function; its placement is Getter{class, field}, Setter{class, field},
\* Method{class, name, consumed}, Function(name), Constructor(class) or
\* StaticFunction{class, name}.
C12_SignatureAndPlacement ==
    [][RecordsExport =>
        LET e == ExportHandled.export
            wasm_name == wasm_name_of(e)
            original == cx.descriptors[wasm_name]
            export_id == cx.function_exports[wasm_name].export_id
            signature == cx'.bindings.exports[export_id]
            placement == cx'.aux.export_map[export_id].kind
        IN  /\ placement = PlacementOf(e)
            /\ signature.tag = "Function"
            /\ ret_of(signature) = ret_of(original)
            /\ IF placement.tag \in {"Getter", "Setter", "Method"}
               THEN /\ Len(arguments_of(signature)) = Len(arguments_of(original)) + 1
                    /\ arguments_of(signature)
                          = <<Prim("I32")>> \o arguments_of(original)
               ELSE arguments_of(signature) = arguments_of(original)
    ]_vars

\* a by-value method with one argument was recorded with two
C12_Witness ==
    \E export_id \in DOMAIN cx.bindings.exports :
        /\ export_id \in DOMAIN cx.aux.export_map
        /\ cx.aux.export_map[export_id].kind
              = AuxExportKind("Method", "Foo", "get", "", TRUE)
        /\ arguments_of(cx.bindings.exports[export_id])
              = <<Prim("I32"), Prim("U32")>>

-----------------------------------------------------------------------------
(* Claims about the function imports.                                      *)

\* the import the step hands to Context::import
ImportHandled == imports_handled'[Len(imports_handled')]

\* the step is an import handler
HandlesImport ==
    /\ pc = "imports"
    /\ Len(imports_handled') = Len(imports_handled) + 1

\* the step is the handler of a function import whose shim is not imported
\* from the placeholder module or has no descriptor in the table
SkipsFunctionImport ==
    /\ HandlesImport
    /\ ImportHandled.import.kind.tag = "Function"
    /\ \/ ImportHandled.import.kind.shim \notin DOMAIN cx.function_imports
       \/ ImportHandled.import.kind.shim \notin DOMAIN cx.descriptors

\* C14: a function import whose shim name is not among the boundary imports,
\* or whose descriptor is absent from the descriptor table, is skipped: the
\* handler returns success and adds nothing to the signature record, the
\* metadata target map, the exception-translating set or the variadic set.
C14_UnknownFunctionImportIsSkipped ==
    [][SkipsFunctionImport =>
        /\ ImportHandled.err = ""
        /\ pc' = "imports"
        /\ result' = result
        /\ cx'.bindings = cx.bindings
        /\ cx'.aux.import_map = cx.aux.import_map
        /\ cx'.aux.imports_with_catch = cx.aux.imports_with_catch
        /\ cx'.aux.imports_with_variadic = cx.aux.imports_with_variadic
    ]_vars

\* a catching, variadic import of an imported shim was skipped for want of a
\* descriptor
C14_Witness ==
    /\ Len(imports_handled) = 1
    /\ LET f == imports_handled[1].import.kind
       IN  /\ f.tag = "Function"
           /\ f.catch
           /\ f.variadic
           /\ f.shim \in DOMAIN cx.function_imports
           /\ f.shim \notin DOMAIN cx.descriptors
    /\ imports_handled[1].err = ""
    /\ cx.aux.imports_with_catch = {}
    /\ cx.aux.imports_with_variadic = {}
    /\ cx.bindings.imports = EmptyMap
    /\ cx.aux.import_map = EmptyMap

\* the step is the handler of an indexing operation of a class, for a shim
\* that is imported and described and a class whose name resolves
HandlesIndexing ==
    /\ HandlesImport
    /\ LET f == ImportHandled.import.kind
       IN  /\ f.tag = "Function"
           /\ f.shim \in DOMAIN cx.function_imports
           /\ f.shim \in DOMAIN cx.descriptors
           /\ cx.descriptors[f.shim].tag = "Function"
           /\ f.method # None
           /\ f.method[1].kind.tag = "Operation"
           /\ f.method[1].kind.kind
                 \in {"IndexingGetter", "IndexingSetter", "IndexingDeleter"}
           /\ determine_import(cx, ImportHandled.import, f.method[1].class).err = ""

\* the message of the rejection of an indexing operation
IndexingNotStructural(kind) ==
    CASE kind = "IndexingGetter" -> IndexingGetterNotStructural
      [] kind = "IndexingSetter" -> IndexingSetterNotStructural
      [] kind = "IndexingDeleter" -> IndexingDeleterNotStructural

\* C15: an indexing getter, setter or deleter import that is not declared
\* structural is rejected with an error, static or not; declared structural
\* it resolves to the class-scoped indexing target, carrying the class's
\* JsImport, when static, and to the instance-scoped indexing target when
\* not static, in both cases with a plain Function binding.
C15_IndexingMustBeStructural ==
    [][HandlesIndexing =>
        LET import == ImportHandled.import
            f == import.kind
            op == f.method[1].kind
            import_id == cx.function_imports[f.shim].import_id
            class == determine_import(cx, import, f.method[1].class).js
        IN  IF ~f.structural
            THEN /\ ImportHandled.err = IndexingNotStructural(op.kind)
                 /\ pc' = "done"
                 /\ result' = ImportHandled.err
                 /\ cx'.aux.import_map = cx.aux.import_map
                 /\ cx'.bindings = cx.bindings
            ELSE /\ ImportHandled.err = ""
                 /\ cx'.aux.import_map[import_id] =
                       IF op.is_static
                       THEN AuxImport(op.kind \o "OfClass", "", class, "")
                       ELSE AuxImport(op.kind \o "OfObject", "", NoJsImport, "")
                 /\ cx'.bindings.imports[import_id] =
                       ImportBinding("Function", cx.descriptors[f.shim])
    ]_vars

\* a structural static indexing deleter of ns.Foo was bound, and the indexing
\* getter after it, which is not structural, was rejected
C15_Witness ==
    /\ \E import_id \in DOMAIN cx.aux.import_map :
          /\ cx.aux.import_map[import_id] =
                AuxImport("IndexingDeleterOfClass", "",
                          JsImport(Global("ns"), <<"Foo">>), "")
          /\ import_id \in DOMAIN cx.bindings.imports
          /\ cx.bindings.imports[import_id].tag = "Function"
    /\ result = IndexingGetterNotStructural
    /\ pc = "done"

-----------------------------------------------------------------------------
(* Claims about name resolution.                                           *)

\* the item whose name the handler of the import resolves first
ItemOf(import) ==
    IF import.kind.tag = "Function"
    THEN IF import.kind.method # None THEN import.kind.method[1].class
         ELSE import.kind.function.name
    ELSE import.kind.name

\* the handler of the import gets as far as resolving the name of its item
Reaches(self, import) ==
    /\ import.kind.tag \in {"Function", "Static", "Type"}
    /\ import.kind.shim \in DOMAIN self.function_imports
    /\ import.kind.tag = "Function" =>
          /\ import.kind.shim \in DOMAIN self.descriptors
          /\ self.descriptors[import.kind.shim].tag = "Function"

\* the vendor prefixes the type imports types[i..] declare for the item
RECURSIVE PrefixesIn(_, _, _)
PrefixesIn(types, item, i) ==
    IF i > Len(types) THEN <<>>
    ELSE (IF types[i].kind.name = item THEN types[i].kind.vendor_prefixes
          ELSE <<>>) \o PrefixesIn(types, item, i + 1)

\* the vendor prefixes the type imports of the first n units declare for the
\* item, in the order of the units
RECURSIVE DeclaredUpTo(_, _)
DeclaredUpTo(item, n) ==
    IF n = 0 THEN <<>>
    ELSE DeclaredUpTo(item, n - 1) \o PrefixesIn(units[n].types, item, 1)

\* the import comes from the global scope, without a namespace
FromGlobalScope(import) ==
    import.module = NoModule /\ import.js_namespace = None

C16_VendorPrefixedOnlyFromGlobalScope ==
    [][(/\ HandlesImport
        /\ Reaches(cx, ImportHandled.import)
        /\ ItemOf(ImportHandled.import) \in DOMAIN cx.vendor_prefixes) =>
        LET import == ImportHandled.import
            item == ItemOf(import)
            import_id == cx.function_imports[import.kind.shim].import_id
        IN  IF FromGlobalScope(import)
            THEN /\ ImportHandled.err = ""
                 /\ cx'.aux.import_map[import_id].js =
                       JsImport(VendorPrefixed(item, cx.vendor_prefixes[item]), <<>>)
            ELSE /\ ImportHandled.err # ""
                 /\ pc' = "done"
                 /\ result' = ImportHandled.err
    ]_vars

-----------------------------------------------------------------------------
(* Claims about snippets and local modules.                                *)

\* the number of snippets the units before unit n registered under the
\* identifier
RECURSIVE SnippetsBefore(_, _)
SnippetsBefore(identifier, n) ==
    IF n <= 1 THEN 0
    ELSE SnippetsBefore(identifier, n - 1)
         + (IF units[n - 1].program.unique_crate_identifier = identifier
            THEN Len(units[n - 1].program.inline_js) ELSE 0)

\* the handled inline imports that have been bound, and for each the last
\* import bound to its shim
BoundInline(log) ==
    {k \in 1..Len(log) :
        /\ log[k].import.module.tag = "Inline"
        /\ log[k].err = ""
        /\ Reaches(cx, log[k].import)
        /\ \A l \in (k + 1)..Len(log) :
              log[l].import.kind.shim # log[k].import.kind.shim}

\* the index recorded for a bound inline import
IndexOf(self, h) ==
    self.aux.import_map[self.function_imports[h.import.kind.shim].import_id]
        .js.name.snippet_idx_in_crate

\* the snippet of h comes before the snippet of g
SnippetBefore(h, g) ==
    \/ h.program < g.program
    \/ h.program = g.program /\ h.import.module.idx < g.import.module.idx

\* C19: an inline import resolves to the declared index plus the number of
\* snippets already registered under the identifier of its unit, so that the
\* inline imports bound under one identifier, in the same or in different
\* program units, get indices that increase strictly with the snippet they
\* refer to and no two that refer to different snippets get the same index.
C19_InlineIndicesAreUnique ==
    [][(/\ HandlesImport
        /\ ImportHandled.import.module.tag = "Inline"
        /\ Reaches(cx, ImportHandled.import)) =>
        LET h == ImportHandled
            identifier == units[programs_begun].program.unique_crate_identifier
        IN  /\ h.err = ""
            /\ cx'.aux.import_map[cx.function_imports[h.import.kind.shim].import_id]
                  .js.name
                  = InlineJs(identifier,
                             h.import.module.idx
                                + SnippetsBefore(identifier, programs_begun),
                             ItemOf(h.import))
            /\ \A k \in BoundInline(imports_handled') :
                  LET g == imports_handled'[k]
                  IN  units[g.program].program.unique_crate_identifier = identifier
                      => /\ SnippetBefore(g, h) => IndexOf(cx', g) < IndexOf(cx', h)
                         /\ SnippetBefore(h, g) => IndexOf(cx', h) < IndexOf(cx', g)
    ]_vars

\* the first snippet of the second unit of crate c1 is bound under index 2,
\* the second snippet of the first unit under index 1
C19_Witness ==
    /\ programs_begun = 2
    /\ units[1].program = Program("c1", <<>>, <<"js0", "js1">>)
    /\ units[2].program.unique_crate_identifier = "c1"
    /\ Len(imports_handled) = 2
    /\ imports_handled[1].import.module = Inline(1)
    /\ imports_handled[2].import.module = Inline(0)
    /\ imports_handled[2].program = 2
    /\ \E a, b \in DOMAIN cx.aux.import_map :
          /\ cx.aux.import_map[a].js.name = InlineJs("c1", 1, "x")
          /\ cx.aux.import_map[b].js.name = InlineJs("c1", 2, "x")

\* the step enters Context::program with the next unit
EntersProgram ==
    /\ pc = "programs"
    /\ programs_begun' = programs_begun + 1

\* the local modules of the unit the step enters
LocalModulesEntered == units'[programs_begun'].program.local_modules

\* the i-th local module of the list is registered already, by an earlier
\* unit or earlier in the list, with other contents
RegisteredOtherwise(local_modules, i) ==
    LET module == local_modules[i]
    IN  \/ /\ module.identifier \in DOMAIN cx.aux.local_modules
           /\ cx.aux.local_modules[module.identifier] # module.contents
        \/ \E j \in 1..(i - 1) :
              /\ local_modules[j].identifier = module.identifier
              /\ local_modules[j].contents # module.contents

\* C20: registering a local module identifier again with the contents it was
\* registered with, in the same or a later program unit, leaves the map of
\* local modules as it was after the first registration; registering it
\* again with other contents is a fatal failure.
C20_LocalModulesRegisterOnce ==
    [][EntersProgram =>
        LET local_modules == LocalModulesEntered
            indices == 1..Len(local_modules)
        IN  IF \E i \in indices : RegisteredOtherwise(local_modules, i)
            THEN /\ pc' = "done"
                 /\ result' = LocalModuleMismatch
            ELSE /\ pc' = "exports"
                 /\ result' = result
                 /\ DOMAIN cx'.aux.local_modules
                       = DOMAIN cx.aux.local_modules
                            \cup {local_modules[i].identifier : i \in indices}
                 /\ \A identifier \in DOMAIN cx.aux.local_modules :
                       cx'.aux.local_modules[identifier]
                           = cx.aux.local_modules[identifier]
                 /\ \A i \in indices :
                       cx'.aux.local_modules[local_modules[i].identifier]
                           = local_modules[i].contents
                 /\ (\A i \in indices :
                        local_modules[i].identifier \in DOMAIN cx.aux.local_modules)
                    => cx'.aux.local_modules = cx.aux.local_modules
    ]_vars

\* the second unit registered m.js again with the contents the first unit
\* registered it with, twice over
C20_Witness ==
    /\ programs_begun = 2
    /\ units[1].program.local_modules
          = <<LocalModuleDecl("m.js", "A"), LocalModuleDecl("m.js", "A")>>
    /\ units[2].program.local_modules = <<LocalModuleDecl("m.js", "A")>>
    /\ cx.aux.local_modules = [identifier \in {"m.js"} |-> "A"]
    /\ pc = "exports"
    /\ result = "running"

-----------------------------------------------------------------------------
(* Claims about the verifier and the outcome of process.                   *)

\* the ids of the imports from the placeholder module that are of the kind
\* given, or of another kind
PlaceholderImports(self, functions) ==
    {i \in 1..Len(self.module.imports) :
        /\ self.module.imports[i].module = PLACEHOLDER_MODULE
        /\ (self.module.imports[i].kind = "Function") = functions}

\* the record set is consistent with the module
Consistent(self) ==
    /\ PlaceholderImports(self, FALSE) = {}
    /\ DOMAIN self.bindings.imports = PlaceholderImports(self, TRUE)
    /\ DOMAIN self.aux.import_map = PlaceholderImports(self, TRUE)
    /\ DOMAIN self.bindings.exports = DOMAIN self.aux.export_map

\* the step is the verifier
Verifies == pc = "programs" /\ pc' # "programs" /\ programs_begun' = programs_begun

\* C17: the verifier accepts exactly when the function imports from the
\* placeholder module, the keys of the import signature map and the keys of
\* the import target map are the same set, no import from the placeholder
\* module is anything but a function, and the export signature map and the
\* export metadata map have the same keys; otherwise it returns an error.
C17_VerifierAcceptsConsistentRecords ==
    [][Verifies =>
        IF Consistent(cx)
        THEN pc' = "attach" /\ result' = result
        ELSE pc' = "done" /\ result' \notin {"running", "ok"}
    ]_vars

\* an import id was in the signature map and not in the target map, and the
\* verifier rejected the records
C17_Witness ==
    /\ pc = "done"
    /\ result = "import doesn't have an import map item listed"
    /\ \E import_id \in PlaceholderImports(cx, TRUE) :
          /\ import_id \in DOMAIN cx.bindings.imports
          /\ import_id \notin DOMAIN cx.aux.import_map
    /\ cx.module.customs = <<>>

\* the two records are custom sections of the module
Attached ==
    cx.module.customs = <<"webidl custom section", "wasm-bindgen custom section">>

\* C18: every failure aborts the pass: when extraction, a handler of a
\* program unit or the verifier fails, process returns that error and
\* attaches neither record to the module; the two records are attached only
\* after the verifier has accepted them, and then process succeeds.
C18_FailureAttachesNothing ==
    /\ extracted.status \notin {"not run", "ok"} => result = extracted.status
    /\ \A k \in 1..Len(handled) : handled[k].err # "" => result = handled[k].err
    /\ \A k \in 1..Len(imports_handled) :
          imports_handled[k].err # "" => result = imports_handled[k].err
    /\ result \notin {"running", "ok"} => pc = "done" /\ cx.module.customs = <<>>
    /\ pc = "done" => result # "running"
    /\ result = "ok" => pc = "done" /\ Attached
    /\ cx.module.customs # <<>> => result = "ok" /\ Attached /\ Consistent(cx)

\* the second start function ended the pass after the first export had been
\* recorded, and nothing was attached
C18_Witness ==
    /\ pc = "done"
    /\ result = TwoStartFunctions
    /\ cx.bindings.exports # EmptyMap
    /\ cx.module.customs = <<>>

-----------------------------------------------------------------------------
(* Claims about the operations of imported classes.                        *)

\* the step is the handler of an operation of a class, for a shim that is
\* imported and described and a class whose name resolves
HandlesOperation ==
    /\ HandlesImport
    /\ LET f == ImportHandled.import.kind
       IN  /\ f.tag = "Function"
           /\ f.shim \in DOMAIN cx.function_imports
           /\ f.shim \in DOMAIN cx.descriptors
           /\ cx.descriptors[f.shim].tag = "Function"
           /\ f.method # None
           /\ f.method[1].kind.tag = "Operation"
           /\ determine_import(cx, ImportHandled.import, f.method[1].class).err = ""

\* the JsImport of the class the handled operation belongs to
ClassHandled ==
    determine_import(cx, ImportHandled.import,
                     ImportHandled.import.kind.method[1].class).js

\* the id of the boundary import the handled import is bound to
ImportIdHandled == cx.function_imports[ImportHandled.import.kind.shim].import_id

\* the JsImport with the fields given after those it has
WithFields(js, fields) == JsImport(js.name, js.fields \o fields)

\* C23: a Regular method import resolves, when static, to the bare value
\* class.<function name> with a Function binding, structural or not; when not
\* static and structural, to StructuralMethod(name) with a Function binding;
\* when not static and not structural, to the bare value
\* class.prototype.<name> with a Method binding.
C23_RegularOperationTargets ==
    [][(/\ HandlesOperation
        /\ ImportHandled.import.kind.method[1].kind.kind = "Regular") =>
        LET f == ImportHandled.import.kind
            op == f.method[1].kind
            name == f.function.name
        IN  /\ ImportHandled.err = ""
            /\ cx'.aux.import_map[ImportIdHandled] =
                  IF op.is_static
                  THEN ValueOf("Bare", WithFields(ClassHandled, <<name>>), "")
                  ELSE IF f.structural
                  THEN AuxImport("StructuralMethod", "", NoJsImport, name)
                  ELSE ValueOf("Bare",
                               WithFields(ClassHandled, <<"prototype", name>>), "")
            /\ cx'.bindings.imports[ImportIdHandled] =
                  ImportBinding(IF ~op.is_static /\ ~f.structural
                                THEN "Method" ELSE "Function",
                                cx.descriptors[f.shim])
    ]_vars

\* a static structural method f of Foo was bound to the bare value Foo.f as a
\* function
C23_Witness ==
    /\ Len(imports_handled) = 1
    /\ LET f == imports_handled[1].import.kind
       IN  /\ f.method # None
           /\ f.method[1].kind = Operation("Regular", TRUE, "x")
           /\ f.structural
    /\ \E import_id \in DOMAIN cx.aux.import_map :
          /\ cx.aux.import_map[import_id] =
                ValueOf("Bare", JsImport(Global("Foo"), <<"f">>), "")
          /\ import_id \in DOMAIN cx.bindings.imports
          /\ cx.bindings.imports[import_id].tag = "Function"

\* the target of a getter or a setter of the field of a class
AccessorTarget(kind, class, is_static, structural, field) ==
    IF structural
    THEN IF is_static
         THEN AuxImport("StructuralClass" \o kind, "", class, field)
         ELSE AuxImport("Structural" \o kind, "", NoJsImport, field)
    ELSE IF is_static
         THEN ValueOf("Class" \o kind, class, field)
         ELSE ValueOf(kind, class, field)

\* C24: a Getter or Setter import on field f resolves, when structural, to
\* StructuralClassGetter(class, f) if static and to StructuralGetter(f) if
\* not, and when not structural to the values ClassGetter(class, f) if static
\* and Getter(class, f) if not, with the Setter analogues; the binding is a
\* Method binding exactly in the two cases that are not structural.
C24_AccessorTargets ==
    [][(/\ HandlesOperation
        /\ ImportHandled.import.kind.method[1].kind.kind \in {"Getter", "Setter"}) =>
        LET f == ImportHandled.import.kind
            op == f.method[1].kind
        IN  /\ ImportHandled.err = ""
            /\ cx'.aux.import_map[ImportIdHandled] =
                  AccessorTarget(op.kind, ClassHandled, op.is_static,
                                 f.structural, op.field)
            /\ cx'.bindings.imports[ImportIdHandled] =
                  ImportBinding(IF f.structural THEN "Function" ELSE "Method",
                                cx.descriptors[f.shim])
    ]_vars

\* a static setter of Foo.x that is not structural was bound to
\* ClassSetter(Foo, x) as a method
C24_Witness ==
    /\ Len(imports_handled) = 1
    /\ \E import_id \in DOMAIN cx.aux.import_map :
          /\ cx.aux.import_map[import_id] =
                ValueOf("ClassSetter", JsImport(Global("Foo"), <<>>), "x")
          /\ import_id \in DOMAIN cx.bindings.imports
          /\ cx.bindings.imports[import_id].tag = "Method"

-----------------------------------------------------------------------------
(* Claims about the exception-translating and the variadic imports.        *)

\* the handled function imports that put the id in a set: they declare the
\* flag, their shim is the boundary import of that id, and they returned
\* without an error
Flagging(import_id, flag) ==
    {k \in 1..Len(imports_handled) :
        LET h == imports_handled[k]
        IN  /\ h.import.kind.tag = "Function"
            /\ (IF flag = "catch" THEN h.import.kind.catch
                ELSE h.import.kind.variadic)
            /\ h.err = ""
            /\ h.import.kind.shim \in DOMAIN cx.function_imports
            /\ cx.function_imports[h.import.kind.shim].import_id = import_id}

\* once process has succeeded, the ids of the two sets are keys of the two
\* import maps and come from function imports that declare the flag
FlaggedImportsAreBound ==
    result = "ok" =>
        /\ \A import_id \in cx.aux.imports_with_catch :
              /\ import_id \in DOMAIN cx.aux.import_map
              /\ import_id \in DOMAIN cx.bindings.imports
              /\ Flagging(import_id, "catch") # {}
        /\ \A import_id \in cx.aux.imports_with_variadic :
              /\ import_id \in DOMAIN cx.aux.import_map
              /\ import_id \in DOMAIN cx.bindings.imports
              /\ Flagging(import_id, "variadic") # {}

\* a step that adds to one of the two sets is the handler of a function
\* import whose shim is a boundary import and has a descriptor, and what it
\* adds is the id of that boundary import, for the flags the import declares
FlaggedByBoundFunctionImport ==
    (\/ cx'.aux.imports_with_catch # cx.aux.imports_with_catch
     \/ cx'.aux.imports_with_variadic # cx.aux.imports_with_variadic) =>
        /\ HandlesImport
        /\ ImportHandled.import.kind.tag = "Function"
        /\ ImportHandled.import.kind.shim \in DOMAIN cx.function_imports
        /\ ImportHandled.import.kind.shim \in DOMAIN cx.descriptors
        /\ cx'.aux.imports_with_catch =
              cx.aux.imports_with_catch
                 \cup (IF ImportHandled.import.kind.catch
                       THEN {ImportIdHandled} ELSE {})
        /\ cx'.aux.imports_with_variadic =
              cx.aux.imports_with_variadic
                 \cup (IF ImportHandled.import.kind.variadic
                       THEN {ImportIdHandled} ELSE {})

\* C28: on successful completion every id in the exception-translating set
\* and in the variadic set is a key of the import target map and of the
\* import signature map, and was put in the set by a function import that was
\* neither skipped for an unknown shim nor for a missing descriptor.
C28_FlaggedImportsAreBound ==
    []FlaggedImportsAreBound /\ [][FlaggedByBoundFunctionImport]_vars

\* process succeeded with an import in both sets, after a second import that
\* declares the flags for the same shim was skipped, its descriptor gone
C28_Witness ==
    /\ result = "ok"
    /\ cx.aux.imports_with_catch # {}
    /\ cx.aux.imports_with_catch = cx.aux.imports_with_variadic
    /\ Len(imports_handled) = 2
    /\ imports_handled[2].import.kind.catch
    /\ imports_handled[2].import.kind.shim = imports_handled[1].import.kind.shim

-----------------------------------------------------------------------------
(* Claims about imports from modules and snippets across units.            *)

\* the identifiers of the local modules the first n units declare
RegisteredUpTo(n) ==
    UNION {{units[m].program.local_modules[i].identifier :
                i \in 1..Len(units[m].program.local_modules)} : m \in 1..n}

\* the handled imports from a module, named or raw-named, that have been
\* bound, and for each the last import bound to its shim
BoundFromModule ==
    {k \in 1..Len(imports_handled) :
        /\ imports_handled[k].import.module.tag \in {"Named", "RawNamed"}
        /\ imports_handled[k].err = ""
        /\ Reaches(cx, imports_handled[k].import)
        /\ \A l \in (k + 1)..Len(imports_handled) :
              imports_handled[l].import.kind.shim
                  # imports_handled[k].import.kind.shim}

\* the name the import was resolved to
NameOf(self, h) ==
    self.aux.import_map[self.function_imports[h.import.kind.shim].import_id].js.name

\* C29: an import from a named module M resolves to the LocalModule name
\* exactly when a local module M was registered by its own or an earlier
\* unit, and to the plain Module name otherwise; that stays so when a later
\* unit registers M. A raw-named import resolves to the plain Module name
\* whatever is registered.
C29_LocalModuleByRegistration ==
    \A k \in BoundFromModule :
        LET h == imports_handled[k]
            module == h.import.module
        IN  NameOf(cx, h) =
                IF module.tag = "Named" /\ module.name \in RegisteredUpTo(h.program)
                THEN LocalModule(module.name, ItemOf(h.import))
                ELSE ModuleName(module.name, ItemOf(h.import))

\* the first unit imported x from m.js, named and raw-named, and the second
\* unit has registered the local module m.js since
C29_Witness ==
    /\ programs_begun = 2
    /\ pc = "exports"
    /\ units[1].program.local_modules = <<>>
    /\ "m.js" \in DOMAIN cx.aux.local_modules
    /\ Len(imports_handled) = 2
    /\ BoundFromModule = {1, 2}
    /\ imports_handled[1].import.module = Named("m.js")
    /\ NameOf(cx, imports_handled[1]) = ModuleName("m.js", "x")
    /\ NameOf(cx, imports_handled[2]) = ModuleName("m.js", "x")

\* Context::program has returned for the n-th unit
UnitFinished(n) ==
    \/ n < programs_begun
    \/ n = programs_begun /\ pc \in {"programs", "attach"}
    \/ n <= programs_begun /\ result = "ok"

\* C30: once a unit is fully processed, every import of the unit that is
\* resolved to InlineJs(c, i) has at index i of the snippets registered under
\* c the text of the snippet it declared, and that stays so while later
\* units are processed.
C30_InlineIndexFindsSnippet ==
    \A k \in BoundInline(imports_handled) :
        LET h == imports_handled[k]
            js == NameOf(cx, h)
            c == js.unique_crate_identifier
            i == js.snippet_idx_in_crate
        IN  UnitFinished(h.program) =>
                /\ js.tag = "InlineJs"
                /\ c \in DOMAIN cx.aux.snippets
                /\ i + 1 <= Len(cx.aux.snippets[c])
                /\ cx.aux.snippets[c][i + 1] =
                      units[h.program].program.inline_js[h.import.module.idx + 1]

\* two units of crate c1 are through: the import of the second snippet of
\* the first finds js1 at index 1, the import of the first snippet of the
\* second finds js2 at index 2
C30_Witness ==
    /\ programs_begun = 2
    /\ pc = "programs"
    /\ BoundInline(imports_handled) = {1, 2}
    /\ imports_handled[1].program = 1
    /\ imports_handled[2].program = 2
    /\ NameOf(cx, imports_handled[1]) = InlineJs("c1", 1, "x")
    /\ NameOf(cx, imports_handled[2]) = InlineJs("c1", 2, "x")
    /\ cx.aux.snippets["c1"] = <<"js0", "js1", "js2", "js3">>

-----------------------------------------------------------------------------
(* Claims about structs and about the keys of the records.                 *)

\* the step handles an enum, a struct or a typescript section of the unit
HandlesItem(kind) ==
    /\ programs_begun > 0
    /\ programs_begun' = programs_begun
    /\ Len(units'[programs_begun].items) = Len(units[programs_begun].items) + 1
    /\ units'[programs_begun].items[Len(units'[programs_begun].items)].kind = kind

\* the item the step handles
ItemHandledNow ==
    units'[programs_begun].items[Len(units'[programs_begun].items)]

\* the accessors of the fields of the struct whose getter the table holds
\* are functions the module exports: the getter, and the setter unless the
\* field is read-only
AccessorsExported(s) ==
    \A i \in 1..Len(s.fields) :
        LET getter == struct_field_get(s.name, s.fields[i].name)
            setter == struct_field_set(s.name, s.fields[i].name)
        IN  getter \in DOMAIN cx.descriptors =>
                /\ getter \in DOMAIN cx.function_exports
                /\ ~s.fields[i].readonly => setter \in DOMAIN cx.function_exports

\* the export ids of the functions of the names given
ExportIds(names) ==
    {cx.function_exports[name].export_id : name \in names \cap DOMAIN cx.function_exports}

\* the names of the accessors the handler of the struct is to record
AccessorsToRecord(s) ==
    UNION {LET getter == struct_field_get(s.name, s.fields[i].name)
               setter == struct_field_set(s.name, s.fields[i].name)
           IN  IF getter \notin DOMAIN cx.descriptors THEN {}
               ELSE IF s.fields[i].readonly THEN {getter}
               ELSE {getter, setter} : i \in 1..Len(s.fields)}

\* C25: the handler of a declared struct appends exactly one struct entry,
\* also when no field is accessed; for each field whose getter descriptor is
\* in the table it records a getter signature (I32) -> field type placed as
\* Getter{struct, field} and, unless the field is read-only, a setter
\* signature (I32, field type) -> Unit placed as Setter{struct, field}; a
\* field whose getter descriptor is absent gets neither and raises no error.
\* The accessors recorded are functions the module exports.
C25_StructAccessors ==
    [][(HandlesItem("struct") /\ AccessorsExported(ItemHandledNow.decl)) =>
        LET s == ItemHandledNow.decl
        IN  /\ ItemHandledNow.err = ""
            /\ cx'.aux.structs = Append(cx.aux.structs, [name |-> s.name])
            /\ DOMAIN cx'.bindings.exports =
                  DOMAIN cx.bindings.exports \cup ExportIds(AccessorsToRecord(s))
            /\ DOMAIN cx'.aux.export_map =
                  DOMAIN cx.aux.export_map \cup ExportIds(AccessorsToRecord(s))
            /\ \A id \in DOMAIN cx.bindings.exports \ ExportIds(AccessorsToRecord(s)) :
                  cx'.bindings.exports[id] = cx.bindings.exports[id]
            /\ \A i \in 1..Len(s.fields) :
                  LET field == s.fields[i]
                      getter == struct_field_get(s.name, field.name)
                      setter == struct_field_set(s.name, field.name)
                  IN  getter \in DOMAIN cx.descriptors =>
                        LET getter_id == cx.function_exports[getter].export_id
                        IN  /\ cx'.bindings.exports[getter_id] =
                                  FunctionD(0, <<Prim("I32")>>, cx.descriptors[getter])
                            /\ cx'.aux.export_map[getter_id].kind =
                                  AuxExportKind("Getter", s.name, "", field.name, FALSE)
                            /\ ~field.readonly =>
                                  LET setter_id == cx.function_exports[setter].export_id
                                  IN  /\ cx'.bindings.exports[setter_id] =
                                            FunctionD(0, <<Prim("I32"),
                                                           cx.descriptors[getter]>>,
                                                      Prim("Unit"))
                                      /\ cx'.aux.export_map[setter_id].kind =
                                            AuxExportKind("Setter", s.name, "",
                                                          field.name, FALSE)
    ]_vars

\* the struct Foo was handled twice: the first time x got a getter and a
\* setter and the read-only y a getter, though its setter is exported, the
\* second time no field had a descriptor left, and two entries were appended
C25_Witness ==
    /\ programs_begun = 1
    /\ pc = "structs"
    /\ Len(units[1].items) = 2
    /\ units[1].items[1].described = {1, 2}
    /\ units[1].items[2].described = {}
    /\ Len(units[1].items[2].decl.fields) = 2
    /\ cx.aux.structs = <<[name |-> "Foo"], [name |-> "Foo"]>>
    /\ "__wbg_set_foo_y" \in DOMAIN cx.function_exports
    /\ {cx.aux.export_map[id].kind : id \in DOMAIN cx.aux.export_map} =
          {AuxExportKind("Getter", "Foo", "", "x", FALSE),
           AuxExportKind("Setter", "Foo", "", "x", FALSE),
           AuxExportKind("Getter", "Foo", "", "y", FALSE)}

\* C26: after init and after every export or struct handler that succeeds,
\* the export signature map and the export metadata map have the same keys,
\* so that neither of the verifier's two export checks fails on the records
\* of the pipeline.
C26_ExportKeysAgree ==
    /\ (pc # "extract" /\ result \in {"running", "ok"}) =>
          DOMAIN cx.bindings.exports = DOMAIN cx.aux.export_map
    /\ result \notin {"bindings map has an entry that the export map does not",
                      "export map and export bindings map have different sizes"}

\* process succeeded with the records of an exported function and of the
\* accessors of a struct
C26_Witness ==
    /\ result = "ok"
    /\ Cardinality(DOMAIN cx.bindings.exports) = 4
    /\ DOMAIN cx.bindings.exports = DOMAIN cx.aux.export_map
    /\ {cx.aux.export_map[id].kind.tag : id \in DOMAIN cx.aux.export_map} =
          {"Function", "Getter", "Setter"}

\* the handlers of the imports that returned an error
FailedImports ==
    {k \in 1..Len(imports_handled) : imports_handled[k].err # ""}

\* C27: after init, which binds the intrinsic and the closure imports, and
\* after every import, static, type or struct handler that succeeds, the
\* import signature map and the import target map have the same keys; they
\* differ only when a handler has returned an error, which ends the pass.
C27_ImportKeysAgree ==
    /\ (pc # "extract" /\ result \in {"running", "ok"}) =>
          DOMAIN cx.bindings.imports = DOMAIN cx.aux.import_map
    /\ DOMAIN cx.bindings.imports # DOMAIN cx.aux.import_map =>
          /\ pc = "done"
          /\ FailedImports # {}
          /\ \A k \in FailedImports : result = imports_handled[k].err

\* the intrinsic, the closure import and the wrapper of Foo are bound in
\* both maps, the static import that failed in the signature map only
C27_Witness ==
    /\ pc = "done"
    /\ result = ModuleVendorPrefixes
    /\ Cardinality(DOMAIN cx.aux.import_map) = 3
    /\ {cx.aux.import_map[id].tag : id \in DOMAIN cx.aux.import_map} =
          {"Intrinsic", "Closure", "WrapInExportedClass"}
    /\ Cardinality(DOMAIN cx.bindings.imports) = 4
    /\ programs_begun = 2

-----------------------------------------------------------------------------
(* Claims about the descriptor table and the order of the handlers.        *)

\* the step is an export handler
HandlesExport ==
    /\ pc = "exports"
    /\ Len(handled') = Len(handled) + 1

\* the handlers that found the descriptor of a name in the table and took
\* it: exports, function imports of a boundary import, fields of structs
Claims ==
    {[by |-> "export", at |-> <<k>>, name |-> wasm_name_of(handled[k].export)] :
        k \in {k \in 1..Len(handled) : handled[k].described}}
    \cup
    {[by |-> "import", at |-> <<k>>, name |-> imports_handled[k].import.kind.shim] :
        k \in {k \in 1..Len(imports_handled) :
                  /\ imports_handled[k].import.kind.tag = "Function"
                  /\ imports_handled[k].described
                  /\ imports_handled[k].import.kind.shim
                         \in DOMAIN cx.function_imports}}
    \cup
    UNION {UNION {{[by |-> "field", at |-> <<n, j, i>>,
                    name |-> struct_field_get(units[n].items[j].decl.name,
                                              units[n].items[j].decl.fields[i].name)] :
                      i \in units[n].items[j].described} :
                  j \in 1..Len(units[n].items)} :
           n \in 1..Len(units)}

\* no descriptor was taken twice, and none that was taken is in the table
ClaimedOnce ==
    /\ \A a, b \in Claims : a.name = b.name => a = b
    /\ pc \notin {"extract", "init"} =>
          \A a \in Claims : a.name \notin DOMAIN cx.descriptors

\* after init the table only loses entries, and an entry is lost to the
\* handler of an export, of a function import or of a struct with a field
\* of that boundary name
DescriptorsOnlyTaken ==
    pc \notin {"extract", "init"} =>
        /\ \A name \in DOMAIN cx'.descriptors :
              /\ name \in DOMAIN cx.descriptors
              /\ cx'.descriptors[name] = cx.descriptors[name]
        /\ \A name \in DOMAIN cx.descriptors \ DOMAIN cx'.descriptors :
              \/ HandlesExport /\ wasm_name_of(ExportHandled.export) = name
              \/ /\ HandlesImport
                 /\ ImportHandled.import.kind.tag = "Function"
                 /\ ImportHandled.import.kind.shim = name
              \/ /\ HandlesItem("struct")
                 /\ \E i \in 1..Len(ItemHandledNow.decl.fields) :
                       struct_field_get(ItemHandledNow.decl.name,
                                        ItemHandledNow.decl.fields[i].name) = name

\* an export or a function import whose boundary name has no entry in the
\* table is skipped: the handler succeeds and leaves the context as it was
AbsentIsSkipped ==
    /\ (HandlesExport /\ ~ExportHandled.described) =>
          ExportHandled.err = "" /\ cx' = cx /\ pc' = pc
    /\ (HandlesImport /\ ImportHandled.import.kind.tag = "Function"
                      /\ ~ImportHandled.described) =>
          ImportHandled.err = "" /\ cx' = cx /\ pc' = pc

\* C21: the descriptor table is consumed once: after init no handler adds
\* an entry, each entry is removed by at most one export, function import
\* or struct field, and a later export or function import with the same
\* boundary name finds it absent and is skipped.
C21_DescriptorsConsumedOnce ==
    /\ []ClaimedOnce
    /\ [][DescriptorsOnlyTaken]_vars
    /\ [][AbsentIsSkipped]_vars

\* main was exported twice and shim_a imported twice as a function: the
\* first handler of each took the descriptor and recorded the function, the
\* second found none and was skipped
C21_Witness ==
    /\ Len(handled) = 2
    /\ handled[1].described /\ ~handled[2].described
    /\ handled[2].err = ""
    /\ Cardinality(DOMAIN cx.bindings.exports) = 1
    /\ \E k, l \in 1..Len(imports_handled) :
          /\ k < l
          /\ imports_handled[k].import.kind.tag = "Function"
          /\ imports_handled[l].import = imports_handled[k].import
          /\ imports_handled[k].described /\ ~imports_handled[l].described
          /\ imports_handled[l].err = ""
    /\ Cardinality({a \in Claims : a.by \in {"export", "import"}}) = 2
    /\ DOMAIN cx.descriptors = {"__wbg_get_foo_x", "__wbg_get_foo_y"}

\* the number of items of a kind the first n units had handled without error
RECURSIVE ItemsOfKind(_, _)
ItemsOfKind(kind, n) ==
    IF n = 0 THEN 0
    ELSE ItemsOfKind(kind, n - 1)
         + Cardinality({j \in 1..Len(units[n].items) :
                           /\ units[n].items[j].kind = kind
                           /\ units[n].items[j].err = ""})

\* the snippets the first n units declare under the identifier, in the
\* order of the units
RECURSIVE SnippetsOf(_, _)
SnippetsOf(identifier, n) ==
    IF n = 0 THEN <<>>
    ELSE SnippetsOf(identifier, n - 1)
         \o (IF units[n].program.unique_crate_identifier = identifier
             THEN units[n].program.inline_js ELSE <<>>)

\* the enums, structs and snippets in the metadata are those of the units
\* before the n-th
AccumulatedBefore(n) ==
    /\ Len(cx.aux.enums) = ItemsOfKind("enum", n - 1)
    /\ Len(cx.aux.structs) = ItemsOfKind("struct", n - 1)
    /\ \A m \in (1..n) \cap (1..Len(units)) :
          LET identifier == units[m].program.unique_crate_identifier
          IN  GetOr(cx.aux.snippets, identifier, <<>>) = SnippetsOf(identifier, n - 1)

\* a unit is entered when the unit before it is through, its enums, structs
\* and snippets accumulated, and is one of the units extracted
UnitsInOrder ==
    EntersProgram =>
        /\ programs_begun' <= Len(extracted.programs)
        /\ \A m \in 1..programs_begun : units'[m] = units[m]
        /\ AccumulatedBefore(programs_begun + 1)

\* an export is handled before any import, enum, struct or typescript
\* section of its unit
ExportsFirst ==
    HandlesExport =>
        /\ \A k \in 1..Len(imports_handled) :
              imports_handled[k].program < programs_begun
        /\ units[programs_begun].items = <<>>
        /\ units[programs_begun].types = <<>>

\* when an import is handled the unit's exports are through, the vendor
\* prefixes of every type import of the unit are registered, those handled
\* later included, and no enum, struct, typescript section or snippet of
\* the unit is in the metadata
ImportsBetween ==
    HandlesImport =>
        /\ handled' = handled
        /\ \A i \in 1..Len(units[programs_begun].types) :
              LET ty == units[programs_begun].types[i].kind
              IN  \A p \in 1..Len(ty.vendor_prefixes) :
                     /\ ty.name \in DOMAIN cx.vendor_prefixes
                     /\ \E q \in 1..Len(cx.vendor_prefixes[ty.name]) :
                           cx.vendor_prefixes[ty.name][q] = ty.vendor_prefixes[p]
        /\ units[programs_begun].items = <<>>
        /\ AccumulatedBefore(programs_begun)

\* an enum, a struct or a typescript section is handled when the imports
\* of the unit are through, and the snippets of the unit are registered
\* after them
ItemsLast ==
    /\ (\E kind \in {"enum", "struct", "typescript"} : HandlesItem(kind)) =>
          /\ cursor = Len(units[programs_begun].types)
          /\ imports_handled' = imports_handled /\ handled' = handled
          /\ cx'.aux.snippets = cx.aux.snippets
    /\ cx'.aux.snippets # cx.aux.snippets =>
          /\ pc' = "programs"
          /\ cursor = Len(units[programs_begun].types)
          /\ cx'.aux.enums = cx.aux.enums /\ cx'.aux.structs = cx.aux.structs

====
